---- MODULE Spec2Model ----
(***************************************************************************)
(* Truth-table trainer (src/src/App.tsx): the logic engine -- tokenizer,   *)
(* recursive-descent parser, evaluator, assignment enumerator, subformula  *)
(* collector, pretty-printers, grammaticality check, random generator --   *)
(* and the App component: loading a formula, the truth table and the quiz. *)
(*                                                                         *)
(* A JavaScript string is a sequence of one-character strings.  The        *)
(* non-ASCII characters are written by their code point: "U+00AC" is the   *)
(* one character NOT SIGN, and so on.  Positions (`i`, `pos`, column and   *)
(* row indices) are 0-based as in the source; sequences are 1-based, so    *)
(* the source's x[i] is x[i + 1] here.                                     *)
(***************************************************************************)
EXTENDS Integers, Sequences, FiniteSets, TLC

VARIABLES
    pc,             \* position of the modelled run: "idle", "loop", "parse",
                    \* "done", "reloaded", "retried", "retyped";
                    \* of the App: "init" (constructed), "mounted"
    str,            \* the argument of loadFormula
    tokens,         \* parseFormula's `tokens` (NoTokens until tokenize returns)
    idCounter,      \* module-scoped `let idCounter`
    formulaStr,     \* App state: text of the input field
    root,           \* App state: the parsed formula or NullNode
    parseError,     \* App state: the error message or null
    grammarWarning, \* App state: the warning text or null
    guesses,        \* App state: guesses[col][row]
    feedback,       \* App state: feedback[col][row]
    columnStatus,   \* App state: columnStatus[col]
    activeColIndex, \* App state (0-based, as in the source)
    summary,        \* App state: summary text ("" or a tag for a non-empty one)
    tape,           \* the values Math.random() returns, in call order
    ast,            \* generateRandomFormulaString's `ast` (NullNode before)
    atomsArg,       \* allAssignments: parameter `atoms`
    mask,           \* allAssignments: loop variable `mask`
    rows,           \* allAssignments: `rows`
    email,          \* App state: text of the email field
    inQuiz,         \* App state
    quizQuestions,  \* App state: records [id, formula, status]
    currentQuizIndex \* App state: 0-based index or NullIndex

vars == <<pc, str, tokens, idCounter, formulaStr, root, parseError,
          grammarWarning, guesses, feedback, columnStatus, activeColIndex,
          summary, tape, ast, atomsArg, mask, rows,
          email, inQuiz, quizQuestions, currentQuizIndex>>

appVars == <<formulaStr, root, parseError, grammarWarning, guesses, feedback,
             columnStatus, activeColIndex, summary>>

quizVars == <<email, inQuiz, quizQuestions, currentQuizIndex>>

\* null, for a string-valued, a node-valued and a token-list-valued place
null == "null"
NullNode == [type |-> "null"]
NoTokens == <<[type |-> "undefined"]>>
\* null in `currentQuizIndex: number | null`
NullIndex == -1

(***************************************************************************)
(* Characters                                                              *)
(***************************************************************************)
NOT_U == "U+00AC"
AND_U == "U+2227"
OR_U == "U+2228"
IMP_U == "U+2192"
BICOND_U == "U+2194"

Alphabet ==
    <<"A", "B", "C", "D", "E", "F", "G", "H", "I", "J", "K", "L", "M",
      "N", "O", "P", "Q", "R", "S", "T", "U", "V", "W", "X", "Y", "Z">>

UpperCase == {Alphabet[i] : i \in 1..Len(Alphabet)}

\* The character order of the uppercase letters (comparison of `c` with "A".."Z",
\* and the default order of Array.prototype.sort on one-letter strings).
CharCode(c) == CHOOSE i \in 1..Len(Alphabet) : Alphabet[i] = c

Min(a, b) == IF a < b THEN a ELSE b

\* input.slice(i, j)
Slice(input, i, j) == SubSeq(input, i + 1, Min(j, Len(input)))

(***************************************************************************)
(* tokenize                                                                *)
(***************************************************************************)
VarToken(c) == [type |-> "VAR", name |-> c]
Tok(t) == [type |-> t]

RECURSIVE TokenizeFrom(_, _, _)
\* the `while (i < input.length)` loop of tokenize, from position i with the
\* tokens pushed so far
TokenizeFrom(input, i, toks) ==
    IF ~(i < Len(input)) THEN [ok |-> TRUE, tokens |-> toks]
    ELSE LET c == input[i + 1] IN
         IF c = " " \/ c = "\t" \/ c = "\n" THEN TokenizeFrom(input, i + 1, toks)
         ELSE IF c \in UpperCase
              THEN TokenizeFrom(input, i + 1, Append(toks, VarToken(c)))
         ELSE IF c = "(" THEN TokenizeFrom(input, i + 1, Append(toks, Tok("LPAREN")))
         ELSE IF c = ")" THEN TokenizeFrom(input, i + 1, Append(toks, Tok("RPAREN")))
         ELSE IF c = "~" \/ c = NOT_U
              THEN TokenizeFrom(input, i + 1, Append(toks, Tok("NOT")))
         ELSE IF c = "&" \/ c = AND_U
              THEN TokenizeFrom(input, i + 1, Append(toks, Tok("AND")))
         ELSE IF c = "v" \/ c = "V" \/ c = OR_U
              THEN TokenizeFrom(input, i + 1, Append(toks, Tok("OR")))
         ELSE IF Slice(input, i, i + 2) = <<"-", ">">>
              THEN TokenizeFrom(input, i + 2, Append(toks, Tok("IMP")))
         ELSE IF c = IMP_U
              THEN TokenizeFrom(input, i + 1, Append(toks, Tok("IMP")))
         ELSE IF Slice(input, i, i + 3) = <<"<", "-", ">">>
              THEN TokenizeFrom(input, i + 3, Append(toks, Tok("BICOND")))
         ELSE IF c = BICOND_U
              THEN TokenizeFrom(input, i + 1, Append(toks, Tok("BICOND")))
         ELSE [ok |-> FALSE, error |-> "Unexpected character: '" \o c \o "'"]

\* the characters that start a lexeme or are skipped
KnownChars ==
    UpperCase \cup {" ", "\t", "\n", "(", ")", "~", NOT_U, "&", AND_U, "v", OR_U,
                    "-", ">", "<", IMP_U, BICOND_U}

\* tokenize that skips a character it does not know
tokenizeSkippingUnknown(input) ==
    TokenizeFrom(SelectSeq(input, LAMBDA c : c \in KnownChars), 0, <<>>)

\* tokenize that does not see the "<" of an arrow
tokenizeBlindToLess(input) ==
    TokenizeFrom(SelectSeq(input, LAMBDA c : c # "<"), 0, <<>>)

tokenize(input) == TokenizeFrom(input, 0, <<>>)

(***************************************************************************)
(* FormulaNode and parseFormula.  The id `n<k>` of a node is the number k. *)
(* A parse function takes the token list and the current `pos` and         *)
(* `idCounter` and returns either the node with the new `pos` and          *)
(* `idCounter`, or the thrown error with the `idCounter` reached.          *)
(***************************************************************************)
\* VarNode that gives every variable the id n0
VarNodeSameId(id, name) == [id |-> 0, type |-> "VAR", name |-> name]

VarNode(id, name) == [id |-> id, type |-> "VAR", name |-> name]
UnaryNode(id, child) == [id |-> id, type |-> "UNARY", op |-> "NOT", child |-> child]
BinaryNode(id, op, left, right) ==
    [id |-> id, type |-> "BINARY", op |-> op, left |-> left, right |-> right]

Ok(node, pos, idc) == [ok |-> TRUE, node |-> node, pos |-> pos, idc |-> idc]
Throw(msg, idc) == [ok |-> FALSE, error |-> msg, idc |-> idc]

Undefined == [type |-> "undefined"]

next(toks, pos) == IF pos < Len(toks) THEN toks[pos + 1] ELSE Undefined

\* eat(expected): the new pos, or the thrown error
eat(toks, pos, expected, idc) ==
    LET tok == next(toks, pos) IN
    IF tok = Undefined THEN Throw("Unexpected end of input", idc)
    ELSE IF expected # null /\ tok.type # expected
         THEN Throw("Expected " \o expected \o ", got " \o tok.type, idc)
    ELSE [ok |-> TRUE, pos |-> pos + 1, tok |-> tok]

RECURSIVE parsePrimary(_, _, _)
RECURSIVE parseUnary(_, _, _)
RECURSIVE parseAnd(_, _, _)
RECURSIVE parseAndLoop(_, _, _, _)
RECURSIVE parseOr(_, _, _)
RECURSIVE parseOrLoop(_, _, _, _)
RECURSIVE parseImp(_, _, _)
RECURSIVE parseImpLoop(_, _, _, _)
RECURSIVE parseBicond(_, _, _)
RECURSIVE parseBicondLoop(_, _, _, _)

\* Each eat(..) below follows a test of next() that makes it succeed, as in the
\* source, so it only advances pos.

\* parsePrimary after `const inside = parseBicond()`
ClosePrimary(toks, inside) ==
    IF ~inside.ok THEN inside
    ELSE IF next(toks, inside.pos) = Undefined
            \/ next(toks, inside.pos).type # "RPAREN"
         THEN Throw("Missing closing parenthesis", inside.idc)
    ELSE Ok(inside.node, eat(toks, inside.pos, "RPAREN", inside.idc).pos, inside.idc)

parsePrimary(toks, pos, idc) ==
    LET t == next(toks, pos) IN
    IF t = Undefined THEN Throw("Unexpected end of input in primary", idc)
    ELSE IF t.type = "VAR"
         THEN Ok(VarNode(idc, t.name), eat(toks, pos, "VAR", idc).pos, idc + 1)
    ELSE IF t.type = "LPAREN"
         THEN ClosePrimary(toks, parseBicond(toks, eat(toks, pos, "LPAREN", idc).pos, idc))
    ELSE Throw("Unexpected token in primary: " \o t.type, idc)

\* WrapUnary with genId() called before parseUnary(): the negation takes the
\* id that its child has, and the child the next one
WrapUnaryIdFirst(child) ==
    IF ~child.ok THEN child
    ELSE Ok(UnaryNode(child.node.id, [child.node EXCEPT !.id = child.idc]),
            child.pos, child.idc + 1)

\* parseUnary after `const child = parseUnary()`
WrapUnary(child) ==
    IF ~child.ok THEN child
    ELSE Ok(UnaryNode(child.idc, child.node), child.pos, child.idc + 1)

parseUnary(toks, pos, idc) ==
    IF next(toks, pos) # Undefined /\ next(toks, pos).type = "NOT"
    THEN WrapUnary(parseUnary(toks, eat(toks, pos, "NOT", idc).pos, idc))
    ELSE parsePrimary(toks, pos, idc)

\* the body of parseAnd's loop after `const right = parseUnary()`
AndNext(toks, node, right) ==
    IF ~right.ok THEN right
    ELSE parseAndLoop(toks, BinaryNode(right.idc, "AND", node, right.node),
                      right.pos, right.idc + 1)

\* the while loop of parseAnd, entered with `node`
parseAndLoop(toks, node, pos, idc) ==
    IF next(toks, pos) # Undefined /\ next(toks, pos).type = "AND"
    THEN AndNext(toks, node, parseUnary(toks, eat(toks, pos, "AND", idc).pos, idc))
    ELSE Ok(node, pos, idc)

\* parseAnd after `let node = parseUnary()`
AndFirst(toks, first) ==
    IF ~first.ok THEN first ELSE parseAndLoop(toks, first.node, first.pos, first.idc)

parseAnd(toks, pos, idc) == AndFirst(toks, parseUnary(toks, pos, idc))

OrNext(toks, node, right) ==
    IF ~right.ok THEN right
    ELSE parseOrLoop(toks, BinaryNode(right.idc, "OR", node, right.node),
                     right.pos, right.idc + 1)

\* parseOr's loop with the right operand parsed by parseUnary, as parseAnd does
parseOrLoopUnary(toks, node, pos, idc) ==
    IF next(toks, pos) # Undefined /\ next(toks, pos).type = "OR"
    THEN OrNext(toks, node, parseUnary(toks, eat(toks, pos, "OR", idc).pos, idc))
    ELSE Ok(node, pos, idc)

parseOrLoop(toks, node, pos, idc) ==
    IF next(toks, pos) # Undefined /\ next(toks, pos).type = "OR"
    THEN OrNext(toks, node, parseAnd(toks, eat(toks, pos, "OR", idc).pos, idc))
    ELSE Ok(node, pos, idc)

OrFirst(toks, first) ==
    IF ~first.ok THEN first ELSE parseOrLoop(toks, first.node, first.pos, first.idc)

parseOr(toks, pos, idc) == OrFirst(toks, parseAnd(toks, pos, idc))

ImpNext(toks, node, right) ==
    IF ~right.ok THEN right
    ELSE parseImpLoop(toks, BinaryNode(right.idc, "IMP", node, right.node),
                      right.pos, right.idc + 1)

\* a right-associative IMP: the node  node -> right  with right a whole Imp
ImpRight(node, right) ==
    IF ~right.ok THEN right
    ELSE Ok(BinaryNode(right.idc, "IMP", node, right.node), right.pos, right.idc + 1)

\* parseImp's loop with the right operand parsed by parseImp itself
parseImpLoopRight(toks, node, pos, idc) ==
    IF next(toks, pos) # Undefined /\ next(toks, pos).type = "IMP"
    THEN ImpRight(node, parseImp(toks, eat(toks, pos, "IMP", idc).pos, idc))
    ELSE Ok(node, pos, idc)

parseImpLoop(toks, node, pos, idc) ==
    IF next(toks, pos) # Undefined /\ next(toks, pos).type = "IMP"
    THEN ImpNext(toks, node, parseOr(toks, eat(toks, pos, "IMP", idc).pos, idc))
    ELSE Ok(node, pos, idc)

ImpFirst(toks, first) ==
    IF ~first.ok THEN first ELSE parseImpLoop(toks, first.node, first.pos, first.idc)

parseImp(toks, pos, idc) == ImpFirst(toks, parseOr(toks, pos, idc))

BicondNext(toks, node, right) ==
    IF ~right.ok THEN right
    ELSE parseBicondLoop(toks, BinaryNode(right.idc, "BICOND", node, right.node),
                         right.pos, right.idc + 1)

parseBicondLoop(toks, node, pos, idc) ==
    IF next(toks, pos) # Undefined /\ next(toks, pos).type = "BICOND"
    THEN BicondNext(toks, node, parseImp(toks, eat(toks, pos, "BICOND", idc).pos, idc))
    ELSE Ok(node, pos, idc)

BicondFirst(toks, first) ==
    IF ~first.ok THEN first
    ELSE parseBicondLoop(toks, first.node, first.pos, first.idc)

parseBicond(toks, pos, idc) == BicondFirst(toks, parseImp(toks, pos, idc))

\* FinishParse without the test `pos !== tokens.length`
FinishParseNoLengthTest(toks, r) ==
    IF ~r.ok
    THEN [ok |-> FALSE, error |-> r.error, idc |-> r.idc, tokens |-> toks]
    ELSE [ok |-> TRUE, node |-> r.node, idc |-> r.idc, tokens |-> toks]

\* parseFormula after `const root = parseBicond()`
FinishParse(toks, r) ==
    IF ~r.ok
    THEN [ok |-> FALSE, error |-> r.error, idc |-> r.idc, tokens |-> toks]
    ELSE IF r.pos # Len(toks)
    THEN [ok |-> FALSE, error |-> "Extra tokens at end of input",
          idc |-> r.idc, tokens |-> toks]
    ELSE [ok |-> TRUE, node |-> r.node, idc |-> r.idc, tokens |-> toks]

\* parseFormula after `const tokens = tokenize(input)`, entered with the
\* idCounter idc
ParseTokensFrom(lexed, idc) ==
    IF ~lexed.ok
    THEN [ok |-> FALSE, error |-> lexed.error, idc |-> idc, tokens |-> NoTokens]
    ELSE FinishParse(lexed.tokens, parseBicond(lexed.tokens, 0, idc))

\* parseFormula after `const tokens = tokenize(input)`, with idCounter = 0
ParseTokens(lexed) == ParseTokensFrom(lexed, 0)

\* parseFormula(input): [ok, node, idc, tokens] or [ok = FALSE, error, idc, tokens];
\* idc is the idCounter the call leaves, `tokens` is NoTokens when tokenize threw.
parseFormula(input) == ParseTokens(tokenize(input))

(***************************************************************************)
(* getAtoms, allAssignments, evalNode                                      *)
(***************************************************************************)
RECURSIVE AtomSet(_)
\* the Set `acc` of getAtoms after the traversal of node
AtomSet(node) ==
    IF node.type = "VAR" THEN {node.name}
    ELSE IF node.type = "UNARY" THEN AtomSet(node.child)
    ELSE AtomSet(node.left) \cup AtomSet(node.right)

RECURSIVE SortNames(_)
\* Array.from(acc).sort()
SortNames(S) ==
    IF S = {} THEN <<>>
    ELSE LET m == CHOOSE a \in S : \A b \in S : CharCode(a) <= CharCode(b)
         IN <<m>> \o SortNames(S \ {m})

\* getAtoms without .sort(): the names in the order of first occurrence
RECURSIVE AtomOrder(_, _)
AtomOrder(node, acc) ==
    IF node.type = "VAR"
    THEN IF \E i \in 1..Len(acc) : acc[i] = node.name THEN acc
         ELSE Append(acc, node.name)
    ELSE IF node.type = "UNARY" THEN AtomOrder(node.child, acc)
    ELSE AtomOrder(node.right, AtomOrder(node.left, acc))

getAtomsUnsorted(node) == AtomOrder(node, <<>>)

getAtoms(node) == SortNames(AtomSet(node))

RECURSIVE Pow2(_)
\* 1 << n
Pow2(n) == IF n <= 0 THEN 1 ELSE 2 * Pow2(n - 1)

\* !!(mask & (1 << bitPos))
BitSet(m, bitPos) == (m \div Pow2(bitPos)) % 2 = 1

\* AsgOfMask with bitPos = i: the first atom as the least significant bit
AsgOfMaskLsbFirst(atoms, m) ==
    LET n == Len(atoms) IN
    [a \in {atoms[k] : k \in 1..n} |->
        LET i == (CHOOSE k \in 1..n :
                     atoms[k] = a /\ \A j \in 1..n : atoms[j] = a => j <= k) - 1
        IN BitSet(m, i)]

\* the object `asg` that the forEach of allAssignments fills for one mask
\* (a later assignment to the same key overwrites an earlier one)
AsgOfMask(atoms, m) ==
    LET n == Len(atoms) IN
    [a \in {atoms[k] : k \in 1..n} |->
        LET i == (CHOOSE k \in 1..n :
                     atoms[k] = a /\ \A j \in 1..n : atoms[j] = a => j <= k) - 1
        IN BitSet(m, n - 1 - i)]

RECURSIVE AssignLoop(_, _, _)
\* the for loop of allAssignments, entered with `mask` and the rows pushed so far
AssignLoop(atoms, m, rs) ==
    IF m >= 0 THEN AssignLoop(atoms, m - 1, Append(rs, AsgOfMask(atoms, m)))
    ELSE rs

allAssignments(atoms) == AssignLoop(atoms, Pow2(Len(atoms)) - 1, <<>>)

RECURSIVE evalNode(_, _)
\* evalNode with the operands of IMP exchanged: l || !r
evalNodeImpSwapped(node, asg) ==
    IF node.type = "VAR" THEN asg[node.name]
    ELSE IF node.type = "UNARY" THEN ~evalNode(node.child, asg)
    ELSE LET l == evalNode(node.left, asg)
             r == evalNode(node.right, asg)
         IN CASE node.op = "AND" -> l /\ r
              [] node.op = "OR" -> l \/ r
              [] node.op = "IMP" -> l \/ ~r
              [] node.op = "BICOND" -> l = r

evalNode(node, asg) ==
    IF node.type = "VAR" THEN asg[node.name]
    ELSE IF node.type = "UNARY" THEN ~evalNode(node.child, asg)
    ELSE LET l == evalNode(node.left, asg)
             r == evalNode(node.right, asg)
         IN CASE node.op = "AND" -> l /\ r
              [] node.op = "OR" -> l \/ r
              [] node.op = "IMP" -> ~l \/ r
              [] node.op = "BICOND" -> l = r

(***************************************************************************)
(* formulaToAscii, formulaToUnicode, collectSubformulas                    *)
(***************************************************************************)
\* AsciiOp with an uppercase "V" for OR
AsciiOpUpper(op) ==
    CASE op = "AND" -> <<"&">>
      [] op = "OR" -> <<"V">>
      [] op = "IMP" -> <<"-", ">">>
      [] op = "BICOND" -> <<"<", "-", ">">>
      [] OTHER -> <<"?">>

AsciiOp(op) ==
    CASE op = "AND" -> <<"&">>
      [] op = "OR" -> <<"v">>
      [] op = "IMP" -> <<"-", ">">>
      [] op = "BICOND" -> <<"<", "-", ">">>
      [] OTHER -> <<"?">>

RECURSIVE formulaToAscii(_)
\* formulaToAscii without the spaces around the connective
formulaToAsciiTight(node) ==
    IF node.type = "VAR" THEN <<node.name>>
    ELSE IF node.type = "UNARY" THEN <<"~">> \o formulaToAscii(node.child)
    ELSE <<"(">> \o formulaToAscii(node.left) \o AsciiOp(node.op)
         \o formulaToAscii(node.right) \o <<")">>

formulaToAscii(node) ==
    IF node.type = "VAR" THEN <<node.name>>
    ELSE IF node.type = "UNARY" THEN <<"~">> \o formulaToAscii(node.child)
    ELSE <<"(">> \o formulaToAscii(node.left) \o <<" ">> \o AsciiOp(node.op)
         \o <<" ">> \o formulaToAscii(node.right) \o <<")">>

UnicodeOp(op) ==
    CASE op = "AND" -> <<AND_U>>
      [] op = "OR" -> <<OR_U>>
      [] op = "IMP" -> <<IMP_U>>
      [] op = "BICOND" -> <<BICOND_U>>
      [] OTHER -> <<"?">>

RECURSIVE formulaToUnicode(_)
\* formulaToUnicode without the parentheses around a binary node
formulaToUnicodeBare(node) ==
    IF node.type = "VAR" THEN <<node.name>>
    ELSE IF node.type = "UNARY" THEN <<NOT_U>> \o formulaToUnicode(node.child)
    ELSE formulaToUnicode(node.left) \o <<" ">> \o UnicodeOp(node.op)
         \o <<" ">> \o formulaToUnicode(node.right)

formulaToUnicode(node) ==
    IF node.type = "VAR" THEN <<node.name>>
    ELSE IF node.type = "UNARY" THEN <<NOT_U>> \o formulaToUnicode(node.child)
    ELSE <<"(">> \o formulaToUnicode(node.left) \o <<" ">> \o UnicodeOp(node.op)
         \o <<" ">> \o formulaToUnicode(node.right) \o <<")">>

RECURSIVE collectSubformulasAcc(_, _)
\* collectSubformulas pushing a node before its children (pre-order)
collectSubformulasPre(node, acc) ==
    IF node.type = "VAR" THEN acc
    ELSE IF node.type = "UNARY"
         THEN collectSubformulasAcc(node.child, Append(acc, node))
    ELSE collectSubformulasAcc(node.right,
             collectSubformulasAcc(node.left, Append(acc, node)))

\* collectSubformulas(node, acc)
collectSubformulasAcc(node, acc) ==
    IF node.type = "VAR" THEN acc
    ELSE IF node.type = "UNARY"
         THEN Append(collectSubformulasAcc(node.child, acc), node)
    ELSE Append(collectSubformulasAcc(node.right,
                    collectSubformulasAcc(node.left, acc)), node)

collectSubformulas(node) == collectSubformulasAcc(node, <<>>)

(***************************************************************************)
(* Random formula generator.  Math.random() returns the values of `tape`   *)
(* in call order, cyclically; a tape value r stands for the number r/60.   *)
(* The generator reads a random number only through Math.floor(r * k) for  *)
(* k = 2, 3, 4 and through r < 0.3: RandValues has one value in each of    *)
(* the seven intervals that the thresholds 1/4, 3/10, 1/3, 1/2, 2/3, 3/4   *)
(* cut [0, 1) into.  A generator function takes the current `idCounter`    *)
(* and the number `rc` of Math.random() calls made so far, and returns     *)
(* them with its node.                                                     *)
(***************************************************************************)
RandValues == {0, 15, 18, 20, 30, 40, 45}

ATOM_POOL == <<"P", "Q", "R", "S">>

\* the value of the Math.random() call number rc (0-based)
random(tp, rc) == tp[(rc % Len(tp)) + 1]

\* randInt(min, max) with r the value Math.random() returned
randInt(min, max, r) == ((r * (max - min + 1)) \div 60) + min

randomAtom(as, r) == as[randInt(0, Len(as) - 1, r) + 1]

randomBinaryOp(r) == <<"AND", "OR", "IMP", "BICOND">>[randInt(0, 3, r) + 1]

Gen(node, idc, rc) == [node |-> node, idc |-> idc, rc |-> rc]

RECURSIVE generateRandomFormulaAST(_, _, _, _, _)

\* the UNARY branch after `const child = generateRandomFormulaAST(..)`
GenUnary(child) == Gen(UnaryNode(child.idc, child.node), child.idc + 1, child.rc)

\* the BINARY branch after `left` and `right`: the operator is drawn, then the id
GenBinary(tp, left, right) ==
    Gen(BinaryNode(right.idc, randomBinaryOp(random(tp, right.rc)),
                   left.node, right.node),
        right.idc + 1, right.rc + 1)

\* the BINARY branch after `const left = generateRandomFormulaAST(..)`
GenRight(maxDepth, as, tp, left) ==
    GenBinary(tp, left, generateRandomFormulaAST(maxDepth - 1, as, tp, left.idc, left.rc))

generateRandomFormulaAST(maxDepth, as, tp, idc, rc) ==
    IF maxDepth <= 0
    THEN Gen(VarNode(idc, randomAtom(as, random(tp, rc))), idc + 1, rc + 1)
    ELSE IF random(tp, rc) * 10 < 3 * 60      \* Math.random() < 0.3
    THEN GenUnary(generateRandomFormulaAST(maxDepth - 1, as, tp, idc, rc + 1))
    ELSE GenRight(maxDepth, as, tp,
                  generateRandomFormulaAST(maxDepth - 1, as, tp, idc, rc + 1))

\* generateRandomFormulaFrom with ATOM_POOL.slice(0, numAtoms + 1)
generateRandomFormulaWiderPool(tp, idc, rc) ==
    generateRandomFormulaAST(randInt(1, 3, random(tp, rc + 1)),
                             SubSeq(ATOM_POOL, 1, randInt(2, 3, random(tp, rc)) + 1),
                             tp, idc, rc + 2)

\* generateRandomFormulaFrom with depth = randInt(0, 3)
generateRandomFormulaFromDepth0(tp, idc, rc) ==
    generateRandomFormulaAST(randInt(0, 3, random(tp, rc + 1)),
                             SubSeq(ATOM_POOL, 1, randInt(2, 3, random(tp, rc))),
                             tp, idc, rc + 2)

\* the `ast` of a generateRandomFormulaString() call that starts after rc
\* calls of Math.random(), with the idCounter and the call count it leaves
generateRandomFormulaFrom(tp, idc, rc) ==
    generateRandomFormulaAST(randInt(1, 3, random(tp, rc + 1)),
                             SubSeq(ATOM_POOL, 1, randInt(2, 3, random(tp, rc))),
                             tp, idc, rc + 2)

\* the `ast` of the first generateRandomFormulaString() call
generateRandomFormulaTree(tp, idc) == generateRandomFormulaFrom(tp, idc, 0)

generateRandomFormulaString(tp, idc) ==
    formulaToUnicode(generateRandomFormulaTree(tp, idc).node)

(***************************************************************************)
(* normalizeForGrammar                                                     *)
(***************************************************************************)
RECURSIVE ReplaceAll(_, _, _)
\* s.replace(/[chars]/g, by)
ReplaceAll(s, chars, by) ==
    IF s = <<>> THEN <<>>
    ELSE (IF Head(s) \in chars THEN by ELSE <<Head(s)>>)
         \o ReplaceAll(Tail(s), chars, by)

\* the characters of the class \s among the characters of the model
WhiteSpace == {" ", "\t", "\n"}

\* normalizeForGrammar without the replacement of the NOT SIGN
normalizeKeepingNotSign(s) ==
    LET s1 == ReplaceAll(s, WhiteSpace, <<>>)
        s3 == ReplaceAll(s1, {AND_U, "&"}, <<"&">>)
        s4 == ReplaceAll(s3, {OR_U, "v", "V"}, <<"v">>)
        s5 == ReplaceAll(s4, {IMP_U}, <<"-", ">">>)
    IN ReplaceAll(s5, {BICOND_U}, <<"<", "-", ">">>)

\* normalizeForGrammar without the replacement of the two arrows
normalizeKeepingArrows(s) ==
    LET s1 == ReplaceAll(s, WhiteSpace, <<>>)
        s2 == ReplaceAll(s1, {NOT_U}, <<"~">>)
        s3 == ReplaceAll(s2, {AND_U, "&"}, <<"&">>)
    IN ReplaceAll(s3, {OR_U, "v", "V"}, <<"v">>)

normalizeForGrammar(s) ==
    LET s1 == ReplaceAll(s, WhiteSpace, <<>>)
        s2 == ReplaceAll(s1, {NOT_U}, <<"~">>)
        s3 == ReplaceAll(s2, {AND_U, "&"}, <<"&">>)
        s4 == ReplaceAll(s3, {OR_U, "v", "V"}, <<"v">>)
        s5 == ReplaceAll(s4, {IMP_U}, <<"-", ">">>)
    IN ReplaceAll(s5, {BICOND_U}, <<"<", "-", ">">>)

(***************************************************************************)
(* App: state after construction, derived values, loadFormula              *)
(***************************************************************************)
\* "(P AND Q) IMP NOT R" in the Unicode spelling
DEFAULT_FORMULA ==
    <<"(", "P", " ", AND_U, " ", "Q", ")", " ", IMP_U, " ", NOT_U, "R">>

GrammarText == "THIS IS UNGRAMMATICAL. I AM FIXING IT."

\* the derived values of a render with the given root
atomsOf(r) == IF r # NullNode THEN getAtoms(r) ELSE <<>>
assignmentsOf(r) == IF r # NullNode THEN allAssignments(atomsOf(r)) ELSE <<>>
subformulasOf(r) == IF r # NullNode THEN collectSubformulas(r) ELSE <<>>

atoms == atomsOf(root)
assignments == assignmentsOf(root)
subformulas == subformulasOf(root)
hasSubformulas == Len(subformulas) > 0

\* Array.from({length: numCols}, () => Array(numRows).fill(v))
Table(numCols, numRows, v) == [c \in 1..numCols |-> [r \in 1..numRows |-> v]]

\* loadFormula whose catch block leaves the table as it is
LoadFailedKeepingTable(message) ==
    /\ root' = NullNode
    /\ parseError' = message
    /\ grammarWarning' = null
    /\ formulaStr' = formulaStr
    /\ UNCHANGED <<guesses, feedback, columnStatus, activeColIndex>>
    /\ summary' = ""

\* loadFormula: setGrammarWarning(null) and the catch block
LoadFailed(message) ==
    /\ root' = NullNode
    /\ parseError' = message
    /\ grammarWarning' = null
    /\ formulaStr' = formulaStr
    /\ guesses' = <<>>
    /\ feedback' = <<>>
    /\ columnStatus' = <<>>
    /\ activeColIndex' = 0
    /\ summary' = ""

\* loadFormula(s) after `parseFormula(str)` returned or threw `parsed`, followed
\* by the table re-initialisation effect that the change of `root` triggers
LoadParsed(s, parsed) ==
    /\ tokens' = parsed.tokens
    /\ idCounter' = parsed.idc
    /\ IF parsed.ok
       THEN /\ root' = parsed.node
            /\ parseError' = null
            /\ grammarWarning' =
                   IF normalizeForGrammar(s)
                          # normalizeForGrammar(formulaToAscii(parsed.node))
                   THEN GrammarText ELSE null
            /\ formulaStr' = formulaToUnicode(parsed.node)
            /\ guesses' = Table(Len(subformulasOf(parsed.node)),
                                Len(assignmentsOf(parsed.node)), null)
            /\ feedback' = Table(Len(subformulasOf(parsed.node)),
                                 Len(assignmentsOf(parsed.node)), null)
            /\ columnStatus' = [c \in 1..Len(subformulasOf(parsed.node)) |-> "pending"]
            /\ activeColIndex' = 0
            /\ summary' = ""
       ELSE LoadFailed(parsed.error)

LoadFormula(s) == LoadParsed(s, parseFormula(s))

AppInit ==
    /\ formulaStr = DEFAULT_FORMULA
    /\ root = NullNode
    /\ parseError = null
    /\ grammarWarning = null
    /\ guesses = <<>>
    /\ feedback = <<>>
    /\ columnStatus = <<>>
    /\ activeColIndex = 0
    /\ summary = ""
    /\ email = <<>>
    /\ inQuiz = FALSE
    /\ quizQuestions = <<>>
    /\ currentQuizIndex = NullIndex

(***************************************************************************)
(* Inputs                                                                  *)
(***************************************************************************)
MaxChars == 3
MaxTokens == 5

RECURSIVE Flatten(_)
Flatten(ss) == IF ss = <<>> THEN <<>> ELSE Head(ss) \o Flatten(Tail(ss))

SeqsUpTo(S, n) == UNION {[1..k -> S] : k \in 0..n}

Chars ==
    {" ", "\n", "P", "V", "v", "x", "1", "(", ")", "~", NOT_U, "&", AND_U, OR_U,
     "-", ">", "<", IMP_U, BICOND_U}

\* ASCII lexemes over two variables, one of them the letter V: the chains have
\* every connective and no parentheses, the others AND, OR and parentheses
ChainLexemes ==
    {<<"P">>, <<"V">>, <<"~">>, <<"&">>, <<"v">>, <<"-", ">">>, <<"<", "-", ">">>}
ParenLexemes ==
    {<<"P">>, <<"V">>, <<"~">>, <<"&">>, <<"v">>, <<"(">>, <<")">>}

CharInputs == SeqsUpTo(Chars, MaxChars)
ChainInputs == {Flatten(ls) : ls \in SeqsUpTo(ChainLexemes, MaxTokens)}
ParenInputs == {Flatten(ls) : ls \in SeqsUpTo(ParenLexemes, MaxTokens)}

\* the default formula in canonical form: "((P AND Q) IMP NOT R)"
DEFAULT_CANONICAL ==
    <<"(", "(", "P", " ", AND_U, " ", "Q", ")", " ", IMP_U, " ", NOT_U, "R", ")">>

\* the inputs that the design document and the source name
NamedInputs ==
    {DEFAULT_FORMULA,
     DEFAULT_CANONICAL,
     <<"P", " ", "V", " ", "Q">>,
     <<"P", " ", "&", " ", "Q">>,
     <<"(", "P", " ", "&", " ", "Q", ")">>,
     <<"P", " ", "&", " ", "Q", " ", "v", " ", "R">>,
     <<"(", "(", "P", " ", "&", " ", "Q", ")", " ", "v", " ", "R", ")">>,
     <<"P", " ", "-", ">", " ", "Q", " ", "-", ">", " ", "R">>,
     <<"(", "(", "P", ")", ")">>,
     <<"(", "P", "\t", "<", "-", ">", "\n", "Q", ")">>,
     <<"A", "~">>,
     <<"P", "<", "-", ">", "Q">>,
     <<"P", "-", ">", "Q">>,
     <<"R", " ", "&", " ", "(", "Q", " ", "v", " ", "P", ")">>,
     <<"P", "\t", "<", "-", "Q">>}

(***************************************************************************)
(* Specification: one call of loadFormula on a given string                *)
(***************************************************************************)
LibIdle ==
    /\ tokens = NoTokens
    /\ idCounter = 0
    /\ tape = <<>>
    /\ ast = NullNode
    /\ atomsArg = <<>>
    /\ mask = 0
    /\ rows = <<>>

InitLoad ==
    /\ pc = "idle"
    /\ str \in CharInputs \cup ChainInputs \cup ParenInputs \cup NamedInputs
    /\ AppInit
    /\ LibIdle

Load ==
    /\ pc = "idle"
    /\ pc' = "done"
    /\ LoadFormula(str)
    /\ UNCHANGED <<str, tape, ast, atomsArg, mask, rows>>
    /\ UNCHANGED quizVars

NextLoad == Load

SpecLoad == InitLoad /\ [][NextLoad]_vars

(***************************************************************************)
(* Specification: one call of allAssignments, step by step                 *)
(***************************************************************************)
MaxAtoms == 3

\* the lists of at most MaxAtoms distinct names of the pool, in any order
AtomLists ==
    {l \in SeqsUpTo({ATOM_POOL[i] : i \in 1..Len(ATOM_POOL)}, MaxAtoms) :
        \A i, j \in 1..Len(l) : l[i] = l[j] => i = j}

InitAsg ==
    /\ pc = "idle"
    /\ str = <<>>
    /\ AppInit
    /\ tokens = NoTokens
    /\ idCounter = 0
    /\ tape = <<>>
    /\ ast = NullNode
    /\ atomsArg \in AtomLists
    /\ mask = 0
    /\ rows = <<>>

\* const n, total, rows; let mask = total - 1
AssignEnter ==
    /\ pc = "idle"
    /\ pc' = "loop"
    /\ rows' = <<>>
    /\ mask' = Pow2(Len(atomsArg)) - 1
    /\ UNCHANGED <<str, tokens, idCounter, tape, ast, atomsArg>>
    /\ UNCHANGED appVars
    /\ UNCHANGED quizVars

\* one iteration of the for loop
AssignIterate ==
    /\ pc = "loop"
    /\ mask >= 0
    /\ rows' = Append(rows, AsgOfMask(atomsArg, mask))
    /\ mask' = mask - 1
    /\ UNCHANGED <<pc, str, tokens, idCounter, tape, ast, atomsArg>>
    /\ UNCHANGED appVars
    /\ UNCHANGED quizVars

\* return rows
AssignReturn ==
    /\ pc = "loop"
    /\ ~(mask >= 0)
    /\ pc' = "done"
    /\ UNCHANGED <<str, tokens, idCounter, tape, ast, atomsArg, mask, rows>>
    /\ UNCHANGED appVars
    /\ UNCHANGED quizVars

NextAsg == AssignEnter \/ AssignIterate \/ AssignReturn

SpecAsg == InitAsg /\ [][NextAsg]_vars

(***************************************************************************)
(* Specification: one call of loadRandomPracticeFormula on a given         *)
(* sequence of random numbers                                              *)
(***************************************************************************)
MaxTape == 5

InitGen ==
    /\ pc = "idle"
    /\ str = <<>>
    /\ AppInit
    /\ tokens = NoTokens
    /\ idCounter = 0
    /\ tape \in [1..MaxTape -> RandValues]
    /\ ast = NullNode
    /\ atomsArg = <<>>
    /\ mask = 0
    /\ rows = <<>>

\* loadRandomPracticeFormula after `const f = generateRandomFormulaString()`:
\* loadFormula(f), whose parseFormula resets the idCounter the generator left
LoadGenerated(g) ==
    /\ ast' = g.node
    /\ str' = formulaToUnicode(g.node)
    /\ LoadFormula(formulaToUnicode(g.node))

LoadRandomPracticeFormula ==
    /\ pc = "idle"
    /\ pc' = "done"
    /\ LoadGenerated(generateRandomFormulaTree(tape, idCounter))
    /\ inQuiz' = FALSE
    /\ quizQuestions' = <<>>
    /\ currentQuizIndex' = NullIndex
    /\ UNCHANGED <<tape, atomsArg, mask, rows, email>>

NextGen == LoadRandomPracticeFormula

SpecGen == InitGen /\ [][NextGen]_vars

(***************************************************************************)
(* App handlers.  The log and the certificate view (logEntries,            *)
(* showCertificate, certificateTimestamp) are written but never read by    *)
(* the handlers below and are left out.                                    *)
(***************************************************************************)
\* String.prototype.trim
RECURSIVE TrimStart(_)
TrimStart(s) ==
    IF s # <<>> /\ Head(s) \in WhiteSpace THEN TrimStart(Tail(s)) ELSE s

RECURSIVE TrimEnd(_)
TrimEnd(s) ==
    IF s # <<>> /\ s[Len(s)] \in WhiteSpace
    THEN TrimEnd(SubSeq(s, 1, Len(s) - 1)) ELSE s

trim(s) == TrimEnd(TrimStart(s))

\* the characters of a template literal as one text
RECURSIVE Join(_)
Join(s) == IF s = <<>> THEN "" ELSE Head(s) \o Join(Tail(s))

numQuestions == 5

\* Question with every status "pending"
QuestionAllPending(i, f) ==
    [id |-> i + 1, formula |-> f, status |-> "pending"]

Question(i, f) ==
    [id |-> i + 1, formula |-> f,
     status |-> IF i = 0 THEN "in-progress" ELSE "pending"]

RECURSIVE QuestionsLoop(_, _, _, _, _)

\* the body of startQuiz's for loop after generateRandomFormulaString() returned
PushQuestion(tp, i, qs, g) ==
    QuestionsLoop(tp, g.idc, g.rc, i + 1,
                  Append(qs, Question(i, formulaToUnicode(g.node))))

\* startQuiz's for loop from iteration i
QuestionsLoop(tp, idc, rc, i, qs) ==
    IF i < numQuestions
    THEN PushQuestion(tp, i, qs, generateRandomFormulaFrom(tp, idc, rc))
    ELSE qs

\* prev.map((q, idx) => idx === k ? { ...q, status: st } : q)
SetStatus(qs, k, st) ==
    [idx \in 1..Len(qs) |->
        IF idx - 1 = k THEN [qs[idx] EXCEPT !.status = st] ELSE qs[idx]]

\* handleCheckActiveColumn: correctValues, newFeedbackCol and the counts
correctValuesOf(node) ==
    [r \in 1..Len(assignments) |-> evalNode(node, assignments[r])]

FeedbackCell(g, v) ==
    IF g = null THEN "missing"
    ELSE IF g = (IF v THEN "T" ELSE "F") THEN "correct"
    ELSE "incorrect"

newFeedbackColOf(col, correctValues) ==
    [r \in 1..Len(col) |-> FeedbackCell(col[r], correctValues[r])]

CountOf(fb, what) == Cardinality({r \in 1..Len(fb) : fb[r] = what})

\* the first sentence of newSummary
SummaryHead(colIdx, node, fb) ==
    "Column " \o ToString(colIdx + 1) \o " of " \o ToString(Len(subformulas))
    \o " (" \o Join(formulaToUnicode(node)) \o "): Correct: "
    \o ToString(CountOf(fb, "correct")) \o ", Incorrect: "
    \o ToString(CountOf(fb, "incorrect")) \o ", Missing: "
    \o ToString(CountOf(fb, "missing")) \o "."

AllRowsCorrectText == " U+2705 All rows correct."

\* the sentence about finalTruths
Classification(correctValues) ==
    IF \A r \in 1..Len(correctValues) : correctValues[r] = TRUE
    THEN " This formula is a tautology."
    ELSE IF \A r \in 1..Len(correctValues) : correctValues[r] = FALSE
    THEN " This formula is a contradiction."
    ELSE " This formula is contingent."

SummaryCompleted(colIdx, node, fb) ==
    SummaryHead(colIdx, node, fb) \o AllRowsCorrectText
    \o " You have completed all subformulas."
    \o Classification(correctValuesOf(node))

\* setFeedback(next[colIdx] = newFeedbackCol)
WithFeedbackCol(colIdx, fb) == [feedback EXCEPT ![colIdx + 1] = fb]

\* WithColumnCorrect that marks the last column instead of column colIdx
WithLastColumnCorrect(colIdx) ==
    [columnStatus EXCEPT ![Len(columnStatus)] = "correct"]

\* setColumnStatus(next[colIdx] = "correct")
WithColumnCorrect(colIdx) == [columnStatus EXCEPT ![colIdx + 1] = "correct"]

parseVars == <<tokens, idCounter>>
loadedVars == <<formulaStr, root, parseError, grammarWarning>>

\* CheckQuizItemCompleted that marks the column and leaves the quiz as it is
CheckQuizItemNotRecorded(colIdx, node, fb) ==
    /\ feedback' = WithFeedbackCol(colIdx, fb)
    /\ columnStatus' = WithColumnCorrect(colIdx)
    /\ summary' = SummaryCompleted(colIdx, node, fb)
    /\ UNCHANGED <<str, guesses, activeColIndex>>
    /\ UNCHANGED parseVars
    /\ UNCHANGED loadedVars
    /\ UNCHANGED <<inQuiz, quizQuestions, currentQuizIndex>>

\* the last column is correct while a quiz is running
CheckQuizItemCompleted(colIdx, node, fb) ==
    IF currentQuizIndex < Len(quizQuestions) - 1
    THEN /\ currentQuizIndex' = currentQuizIndex + 1
         /\ quizQuestions' =
                SetStatus(SetStatus(quizQuestions, currentQuizIndex, "completed"),
                          currentQuizIndex + 1, "in-progress")
         /\ str' = quizQuestions[currentQuizIndex + 2].formula
         /\ LoadFormula(quizQuestions[currentQuizIndex + 2].formula)
         /\ UNCHANGED inQuiz
    ELSE /\ quizQuestions' = SetStatus(quizQuestions, currentQuizIndex, "completed")
         /\ inQuiz' = FALSE
         /\ currentQuizIndex' = NullIndex
         /\ feedback' = WithFeedbackCol(colIdx, fb)
         /\ columnStatus' = WithColumnCorrect(colIdx)
         /\ summary' = SummaryCompleted(colIdx, node, fb)
                           \o " You have completed all quiz items."
         /\ UNCHANGED <<str, guesses, activeColIndex>>
         /\ UNCHANGED parseVars
         /\ UNCHANGED loadedVars

\* incorrectCount === 0 && missingCount === 0
CheckAllCorrect(colIdx, node, fb) ==
    IF colIdx < Len(subformulas) - 1
    THEN /\ feedback' = WithFeedbackCol(colIdx, fb)
         /\ columnStatus' = WithColumnCorrect(colIdx)
         /\ activeColIndex' = colIdx + 1
         /\ summary' = SummaryHead(colIdx, node, fb) \o AllRowsCorrectText
                           \o " Moving to the next subformula column."
         /\ UNCHANGED <<str, guesses>>
         /\ UNCHANGED parseVars
         /\ UNCHANGED loadedVars
         /\ UNCHANGED <<inQuiz, quizQuestions, currentQuizIndex>>
    ELSE IF inQuiz /\ currentQuizIndex # NullIndex
    THEN CheckQuizItemCompleted(colIdx, node, fb)
    ELSE /\ feedback' = WithFeedbackCol(colIdx, fb)
         /\ columnStatus' = WithColumnCorrect(colIdx)
         /\ summary' = SummaryCompleted(colIdx, node, fb)
         /\ UNCHANGED <<str, guesses, activeColIndex>>
         /\ UNCHANGED parseVars
         /\ UNCHANGED loadedVars
         /\ UNCHANGED <<inQuiz, quizQuestions, currentQuizIndex>>

\* CheckColumn that tests incorrectCount === 0 only
CheckColumnAllowingMissing(colIdx, node, fb) ==
    IF Len(guesses[colIdx + 1]) = 0
    THEN /\ feedback' = WithFeedbackCol(colIdx, fb)
         /\ summary' = ""
         /\ UNCHANGED <<str, guesses, columnStatus, activeColIndex>>
         /\ UNCHANGED parseVars
         /\ UNCHANGED loadedVars
         /\ UNCHANGED <<inQuiz, quizQuestions, currentQuizIndex>>
    ELSE IF CountOf(fb, "incorrect") = 0
    THEN CheckAllCorrect(colIdx, node, fb)
    ELSE /\ feedback' = WithFeedbackCol(colIdx, fb)
         /\ summary' = SummaryHead(colIdx, node, fb)
                           \o " Try fixing the highlighted rows."
         /\ UNCHANGED <<str, guesses, columnStatus, activeColIndex>>
         /\ UNCHANGED parseVars
         /\ UNCHANGED loadedVars
         /\ UNCHANGED <<inQuiz, quizQuestions, currentQuizIndex>>

\* handleCheckActiveColumn after newFeedbackCol is computed
CheckColumn(colIdx, node, fb) ==
    IF Len(guesses[colIdx + 1]) = 0
    THEN /\ feedback' = WithFeedbackCol(colIdx, fb)
         /\ summary' = ""
         /\ UNCHANGED <<str, guesses, columnStatus, activeColIndex>>
         /\ UNCHANGED parseVars
         /\ UNCHANGED loadedVars
         /\ UNCHANGED <<inQuiz, quizQuestions, currentQuizIndex>>
    ELSE IF CountOf(fb, "incorrect") = 0 /\ CountOf(fb, "missing") = 0
    THEN CheckAllCorrect(colIdx, node, fb)
    ELSE /\ feedback' = WithFeedbackCol(colIdx, fb)
         /\ summary' = SummaryHead(colIdx, node, fb)
                           \o " Try fixing the highlighted rows."
         /\ UNCHANGED <<str, guesses, columnStatus, activeColIndex>>
         /\ UNCHANGED parseVars
         /\ UNCHANGED loadedVars
         /\ UNCHANGED <<inQuiz, quizQuestions, currentQuizIndex>>

\* current === null ? "T" : current === "T" ? "F" : null
NextGuess(current) ==
    IF current = null THEN "T" ELSE IF current = "T" THEN "F" ELSE null

(***************************************************************************)
(* Specification: the App component under user events                      *)
(***************************************************************************)
\* the largest row index the user clicks on
MaxRowIdx == 1

\* the length of the cycle of random numbers of one handler call
MaxAppTape == 1

\* random numbers that select two atoms, the first atom, and depth 1 / 2
AppRandValues == {0, 20}

AppTapes == [1..MaxAppTape -> AppRandValues]

Emails == {<<>>, <<"a", " ">>}

TypedInputs == {<<"P", " ", "v">>, <<"P", "x">>, <<"P">>}

libVars == <<tape, ast, atomsArg, mask, rows>>

InitApp ==
    /\ pc = "init"
    /\ str = <<>>
    /\ AppInit
    /\ LibIdle

\* useEffect(() => loadFormula(DEFAULT_FORMULA), [])
Mount ==
    /\ pc = "init"
    /\ pc' = "mounted"
    /\ str' = DEFAULT_FORMULA
    /\ LoadFormula(DEFAULT_FORMULA)
    /\ UNCHANGED libVars
    /\ UNCHANGED quizVars

\* onChange of the email field
SetEmail(e) ==
    /\ pc = "mounted"
    /\ email' = e
    /\ UNCHANGED <<pc, str, inQuiz, quizQuestions, currentQuizIndex>>
    /\ UNCHANGED parseVars
    /\ UNCHANGED appVars
    /\ UNCHANGED libVars

\* onChange of the formula field, insertSymbol
SetFormulaStr(s) ==
    /\ pc = "mounted"
    /\ formulaStr' = s
    /\ UNCHANGED <<pc, str, root, parseError, grammarWarning, guesses, feedback,
                   columnStatus, activeColIndex, summary>>
    /\ UNCHANGED parseVars
    /\ UNCHANGED quizVars
    /\ UNCHANGED libVars

HandleParse ==
    /\ pc = "mounted"
    /\ inQuiz' = FALSE
    /\ currentQuizIndex' = NullIndex
    /\ quizQuestions' = <<>>
    /\ str' = formulaStr
    /\ LoadFormula(formulaStr)
    /\ UNCHANGED <<pc, email>>
    /\ UNCHANGED libVars

\* loadFormula(f), recording its argument
LoadText(f) ==
    /\ str' = f
    /\ LoadFormula(f)

\* loadRandomPracticeFormula with the random numbers of tp
PracticeFormula(tp) ==
    /\ pc = "mounted"
    /\ inQuiz' = FALSE
    /\ quizQuestions' = <<>>
    /\ currentQuizIndex' = NullIndex
    /\ LoadText(generateRandomFormulaString(tp, idCounter))
    /\ UNCHANGED <<pc, email>>
    /\ UNCHANGED libVars

\* startQuiz after the for loop built qs
StartWith(qs) ==
    /\ quizQuestions' = qs
    /\ inQuiz' = TRUE
    /\ currentQuizIndex' = 0
    /\ str' = qs[1].formula
    /\ LoadFormula(qs[1].formula)
    /\ UNCHANGED <<pc, email>>
    /\ UNCHANGED libVars

StartQuiz(tp) ==
    /\ pc = "mounted"
    /\ IF trim(email) = <<>>
       THEN UNCHANGED vars
       ELSE StartWith(QuestionsLoop(tp, idCounter, 0, 0, <<>>))

\* toggleGuess without `if (colIdx !== activeColIndex) return`
ToggleGuessAnyColumn(colIdx, rowIdx) ==
    /\ pc = "mounted"
    /\ IF \/ root = NullNode
          \/ columnStatus[colIdx + 1] = "correct"
       THEN UNCHANGED vars
       ELSE /\ guesses' = [guesses EXCEPT ![colIdx + 1][rowIdx + 1] =
                               NextGuess(guesses[colIdx + 1][rowIdx + 1])]
            /\ feedback' = [feedback EXCEPT ![colIdx + 1][rowIdx + 1] = null]
            /\ summary' = ""
            /\ UNCHANGED <<pc, str, columnStatus, activeColIndex>>
            /\ UNCHANGED parseVars
            /\ UNCHANGED loadedVars
            /\ UNCHANGED quizVars
            /\ UNCHANGED libVars

\* toggleGuess without `if (columnStatus[colIdx] === "correct") return`
ToggleGuessCorrectColumn(colIdx, rowIdx) ==
    /\ pc = "mounted"
    /\ IF \/ colIdx # activeColIndex
          \/ root = NullNode
       THEN UNCHANGED vars
       ELSE /\ guesses' = [guesses EXCEPT ![colIdx + 1][rowIdx + 1] =
                               NextGuess(guesses[colIdx + 1][rowIdx + 1])]
            /\ feedback' = [feedback EXCEPT ![colIdx + 1][rowIdx + 1] = null]
            /\ summary' = ""
            /\ UNCHANGED <<pc, str, columnStatus, activeColIndex>>
            /\ UNCHANGED parseVars
            /\ UNCHANGED loadedVars
            /\ UNCHANGED quizVars
            /\ UNCHANGED libVars

ToggleGuess(colIdx, rowIdx) ==
    /\ pc = "mounted"
    /\ IF \/ colIdx # activeColIndex
          \/ root = NullNode
          \/ columnStatus[colIdx + 1] = "correct"
       THEN UNCHANGED vars
       ELSE /\ guesses' = [guesses EXCEPT ![colIdx + 1][rowIdx + 1] =
                               NextGuess(guesses[colIdx + 1][rowIdx + 1])]
            /\ feedback' = [feedback EXCEPT ![colIdx + 1][rowIdx + 1] = null]
            /\ summary' = ""
            /\ UNCHANGED <<pc, str, columnStatus, activeColIndex>>
            /\ UNCHANGED parseVars
            /\ UNCHANGED loadedVars
            /\ UNCHANGED quizVars
            /\ UNCHANGED libVars

HandleCheckActiveColumn ==
    /\ pc = "mounted"
    /\ IF \/ root = NullNode
          \/ ~hasSubformulas
          \/ activeColIndex < 0
          \/ activeColIndex >= Len(subformulas)
       THEN UNCHANGED vars
       ELSE /\ CheckColumn(activeColIndex, subformulas[activeColIndex + 1],
                           newFeedbackColOf(guesses[activeColIndex + 1],
                               correctValuesOf(subformulas[activeColIndex + 1])))
            /\ UNCHANGED <<pc, email>>
            /\ UNCHANGED libVars

\* the cells of the rendered table on which the user clicks
ClickCols == 0..(Len(subformulas) - 1)
ClickRows == {r \in 0..(Len(assignments) - 1) : r <= MaxRowIdx}

NextApp ==
    \/ Mount
    \/ \E e \in Emails : SetEmail(e)
    \/ \E s \in TypedInputs : SetFormulaStr(s)
    \/ HandleParse
    \/ \E tp \in AppTapes : PracticeFormula(tp)
    \/ \E tp \in AppTapes : StartQuiz(tp)
    \/ \E c \in ClickCols : \E r \in ClickRows : ToggleGuess(c, r)
    \/ HandleCheckActiveColumn

SpecApp == InitApp /\ [][NextApp]_vars

(***************************************************************************)
(* Specification: calls of generateRandomFormulaString and of loadFormula  *)
(* in any order, parseFormula in two steps: `idCounter = 0`, then the rest *)
(***************************************************************************)
\* generateRandomFormulaString is called only while idCounter <= MaxIdCounter
MaxIdCounter == 6

\* the length of the cycle of random numbers of one generator call
MaxIdTape == 1

\* random numbers that make a negation of depth 1, and a disjunction and an
\* implication of depth 2
IdRandValues == {0, 20, 30}

IdTapes == [1..MaxIdTape -> IdRandValues]

\* "~P & (Q": three nodes are constructed before the parse fails
UNCLOSED == <<"~", "P", " ", "&", " ", "(", "Q">>

IdInputs == NamedInputs \cup {UNCLOSED}

InitIds ==
    /\ pc = "idle"
    /\ str = <<>>
    /\ AppInit
    /\ LibIdle

\* generateRandomFormulaString() after `const ast = generateRandomFormulaAST(..)`
Generated(tp, g) ==
    /\ tape' = tp
    /\ ast' = g.node
    /\ idCounter' = g.idc

\* one call of generateRandomFormulaString(), as loadRandomPracticeFormula
\* and the loop of startQuiz make it
Generate(tp) ==
    /\ pc = "idle"
    /\ idCounter <= MaxIdCounter
    /\ Generated(tp, generateRandomFormulaTree(tp, idCounter))
    /\ UNCHANGED <<pc, str, tokens, atomsArg, mask, rows>>
    /\ UNCHANGED appVars
    /\ UNCHANGED quizVars

\* ParseEnter without `idCounter = 0`
ParseEnterNoReset(s) ==
    /\ pc = "idle"
    /\ pc' = "parse"
    /\ str' = s
    /\ UNCHANGED <<idCounter, tokens, tape, ast, atomsArg, mask, rows>>
    /\ UNCHANGED appVars
    /\ UNCHANGED quizVars

\* loadFormula(s) up to the first statement of parseFormula: idCounter = 0
ParseEnter(s) ==
    /\ pc = "idle"
    /\ pc' = "parse"
    /\ str' = s
    /\ idCounter' = 0
    /\ UNCHANGED <<tokens, tape, ast, atomsArg, mask, rows>>
    /\ UNCHANGED appVars
    /\ UNCHANGED quizVars

\* the rest of parseFormula and of loadFormula
ParseReturn ==
    /\ pc = "parse"
    /\ pc' = "idle"
    /\ LoadParsed(str, ParseTokensFrom(tokenize(str), idCounter))
    /\ UNCHANGED <<str, tape, ast, atomsArg, mask, rows>>
    /\ UNCHANGED quizVars

\* the texts loadFormula is called with: typed ones, and the generated one
ParseArgs == IdInputs \cup (IF ast # NullNode THEN {formulaToUnicode(ast)} ELSE {})

NextIds ==
    \/ \E tp \in IdTapes : Generate(tp)
    \/ \E s \in ParseArgs : ParseEnter(s)
    \/ ParseReturn

SpecIds == InitIds /\ [][NextIds]_vars

(***************************************************************************)
(* Specification: the App with a user who takes the quiz: once a quiz has  *)
(* started the user clicks only on cells of the active column whose guess  *)
(* is not yet the value of the column's subformula, and on the check       *)
(* button, and goes on doing so; no formula is loaded and no quiz started  *)
(* while a quiz is running.                                                *)
(***************************************************************************)
\* a cycle of random numbers that makes the two-atom formula (P AND Q)
TwoAtomTape == <<30, 0>>

QuizTapes == AppTapes \cup {TwoAtomTape}

\* the rows (0-based) of the active column whose guess is not the value of
\* the column's subformula under the row's assignment
WrongRows ==
    IF root # NullNode /\ activeColIndex >= 0 /\ activeColIndex < Len(subformulas)
    THEN {r \in 0..(Len(assignments) - 1) :
             guesses[activeColIndex + 1][r + 1] #
                 (IF evalNode(subformulas[activeColIndex + 1], assignments[r + 1])
                  THEN "T" ELSE "F")}
    ELSE {}

\* a click on a cell of the active column that is not yet right
FillActive ==
    /\ inQuiz
    /\ \E r \in WrongRows : ToggleGuess(activeColIndex, r)

\* a click on the check button during the quiz
CheckInQuiz ==
    /\ inQuiz
    /\ HandleCheckActiveColumn

\* a click on the quiz button while no quiz is running
StartFresh(tp) ==
    /\ ~inQuiz
    /\ StartQuiz(tp)

NextQuiz ==
    \/ Mount
    \/ \E e \in Emails : SetEmail(e)
    \/ \E tp \in QuizTapes : StartFresh(tp)
    \/ FillActive
    \/ CheckInQuiz

\* a click on the check button when every row of the active column is right
CheckFilled ==
    /\ WrongRows = {}
    /\ CheckInQuiz

\* the states in which a FillActive step, a CheckFilled step is possible and
\* changes the state: ENABLED <<FillActive>>_vars, ENABLED <<CheckFilled>>_vars
CanFill == pc = "mounted" /\ inQuiz /\ WrongRows # {}
CanCheckFilled ==
    /\ pc = "mounted" /\ inQuiz
    /\ root # NullNode /\ activeColIndex >= 0 /\ activeColIndex < Len(subformulas)
    /\ columnStatus[activeColIndex + 1] # "correct"
    /\ WrongRows = {}

\* The user goes on: weak fairness of FillActive and of CheckFilled, that is
\* WF_vars(FillActive) /\ WF_vars(CheckFilled) with ENABLED written out as
\* the state predicates above.
SpecQuiz ==
    /\ InitApp /\ [][NextQuiz]_vars
    /\ (<>[]CanFill => []<><<FillActive>>_vars)
    /\ (<>[]CanCheckFilled => []<><<CheckFilled>>_vars)

(***************************************************************************)
(* Specification: a load, then a load of the canonical text of its result  *)
(***************************************************************************)
MaxCanonTape == 3

CanonTapes == [1..MaxCanonTape -> RandValues]

InitCanon ==
    /\ pc = "idle"
    /\ AppInit
    /\ tokens = NoTokens
    /\ idCounter = 0
    /\ ast = NullNode
    /\ atomsArg = <<>>
    /\ mask = 0
    /\ rows = <<>>
    /\ \/ str \in ChainInputs \cup ParenInputs \cup NamedInputs /\ tape = <<>>
       \/ str = <<>> /\ tape \in CanonTapes

\* handleParse on the text that the load before it left in the input field
Reparse ==
    /\ pc = "done"
    /\ pc' = IF root # NullNode THEN "reloaded" ELSE "retried"
    /\ inQuiz' = FALSE
    /\ currentQuizIndex' = NullIndex
    /\ quizQuestions' = <<>>
    /\ LoadText(formulaStr)
    /\ UNCHANGED email
    /\ UNCHANGED libVars

\* the ASCII spelling of the loaded formula is typed into the input field
\* (setFormulaStr), then handleParse
RetypeAscii ==
    /\ pc = "done"
    /\ root # NullNode
    /\ pc' = "retyped"
    /\ inQuiz' = FALSE
    /\ currentQuizIndex' = NullIndex
    /\ quizQuestions' = <<>>
    /\ LoadText(formulaToAscii(root))
    /\ UNCHANGED email
    /\ UNCHANGED libVars

NextCanon ==
    \/ tape = <<>> /\ Load
    \/ tape # <<>> /\ LoadRandomPracticeFormula
    \/ Reparse
    \/ RetypeAscii

SpecCanon == InitCanon /\ [][NextCanon]_vars

(***************************************************************************)
(* Vocabulary of the properties                                            *)
(***************************************************************************)
BinaryOps == {"AND", "OR", "IMP", "BICOND"}

\* binding strength of a binary connective, tighter is larger
Level(op) ==
    CASE op = "AND" -> 4 [] op = "OR" -> 3 [] op = "IMP" -> 2 [] op = "BICOND" -> 1

SVar(name) == [type |-> "VAR", name |-> name]
SNot(child) == [type |-> "UNARY", op |-> "NOT", child |-> child]
SBin(op, left, right) == [type |-> "BINARY", op |-> op, left |-> left, right |-> right]

RECURSIVE Shape(_)
\* a tree without its ids: node kinds, operators, names and child order
Shape(node) ==
    IF node.type = "VAR" THEN SVar(node.name)
    ELSE IF node.type = "UNARY" THEN SNot(Shape(node.child))
    ELSE SBin(node.op, Shape(node.left), Shape(node.right))

\* the ASCII spelling of a token and of a token list
TokText(t) ==
    CASE t.type = "VAR" -> <<t.name>>
      [] t.type = "LPAREN" -> <<"(">>
      [] t.type = "RPAREN" -> <<")">>
      [] t.type = "NOT" -> <<"~">>
      [] t.type = "AND" -> <<"&">>
      [] t.type = "OR" -> <<"v">>
      [] t.type = "IMP" -> <<"-", ">">>
      [] t.type = "BICOND" -> <<"<", "-", ">">>

TextOf(toks) == Flatten([i \in 1..Len(toks) |-> TokText(toks[i])])

RECURSIVE OperandEnd(_, _)
\* toks[i..e] is NOT* VAR: the index e of its VAR, or 0 when there is none
OperandEnd(toks, i) ==
    IF i > Len(toks) THEN 0
    ELSE IF toks[i].type = "VAR" THEN i
    ELSE IF toks[i].type = "NOT" THEN OperandEnd(toks, i + 1)
    ELSE 0

RECURSIVE OperandShape(_, _, _)
OperandShape(toks, i, e) ==
    IF i = e THEN SVar(toks[e].name) ELSE SNot(OperandShape(toks, i + 1, e))

IsBinTok(toks, i) == i <= Len(toks) /\ toks[i].type \in BinaryOps

\* toks is  U1 op U2  with U1, U2 of the form NOT* VAR
IsChain1(toks) ==
    LET e1 == OperandEnd(toks, 1) IN
    /\ e1 > 0
    /\ IsBinTok(toks, e1 + 1)
    /\ OperandEnd(toks, e1 + 2) = Len(toks)

\* toks is  U1 op1 U2 op2 U3  with U1, U2, U3 of the form NOT* VAR
IsChain2(toks) ==
    LET e1 == OperandEnd(toks, 1)
        e2 == OperandEnd(toks, e1 + 2)
    IN /\ e1 > 0
       /\ IsBinTok(toks, e1 + 1)
       /\ e2 > 0
       /\ IsBinTok(toks, e2 + 1)
       /\ OperandEnd(toks, e2 + 2) = Len(toks)

\* the parts of a chain of one operator
Chain1(toks) ==
    LET e1 == OperandEnd(toks, 1) IN
    [op1 |-> toks[e1 + 1].type,
     u1 |-> OperandShape(toks, 1, e1),
     u2 |-> OperandShape(toks, e1 + 2, Len(toks))]

\* the parts of a chain of two operators
Chain(toks) ==
    LET e1 == OperandEnd(toks, 1)
        e2 == OperandEnd(toks, e1 + 2)
    IN [op1 |-> toks[e1 + 1].type,
        op2 |-> toks[e2 + 1].type,
        u1 |-> OperandShape(toks, 1, e1),
        u2 |-> OperandShape(toks, e1 + 2, e2),
        u3 |-> OperandShape(toks, e2 + 2, Len(toks)),
        t1 |-> TextOf(SubSeq(toks, 1, e1)),
        t2 |-> TextOf(SubSeq(toks, e1 + 2, e2)),
        t3 |-> TextOf(SubSeq(toks, e2 + 2, Len(toks))),
        o1 |-> TokText(toks[e1 + 1]),
        o2 |-> TokText(toks[e2 + 1])]

\* "(U1 op1 U2) op2 U3" and "U1 op1 (U2 op2 U3)"
LeftGrouped(c) ==
    <<"(">> \o c.t1 \o c.o1 \o c.t2 \o <<")">> \o c.o2 \o c.t3
RightGrouped(c) ==
    c.t1 \o c.o1 \o <<"(">> \o c.t2 \o c.o2 \o c.t3 \o <<")">>

Loaded == pc = "done" /\ root # NullNode

(***************************************************************************)
(* C1: tokenize maps each 'v', 'V' and OR SIGN to one OR token; an         *)
(* uppercase 'V' is never emitted as a VAR token, "P V Q" tokenizes to     *)
(* [VAR P, OR, VAR Q] and parses to the disjunction of P and Q.            *)
(***************************************************************************)
C1_UpperVIsOr ==
    (pc = "done" /\ tokens # NoTokens) =>
        /\ \A i \in 1..Len(tokens) :
               tokens[i].type = "VAR" => tokens[i].name # "V"
        /\ Cardinality({i \in 1..Len(tokens) : tokens[i].type = "OR"})
               = Cardinality({i \in 1..Len(str) : str[i] \in {"v", "V", OR_U}})
        /\ str = <<"P", " ", "V", " ", "Q">> =>
               /\ tokens = <<VarToken("P"), Tok("OR"), VarToken("Q")>>
               /\ root # NullNode
               /\ Shape(root) = SBin("OR", SVar("P"), SVar("Q"))

C3_LeftAssoc ==
    (pc = "done" /\ tokens # NoTokens) =>
        /\ (IsChain2(tokens) /\ Chain(tokens).op1 = Chain(tokens).op2) =>
            LET c == Chain(tokens)
                l == parseFormula(LeftGrouped(c))
                r == parseFormula(RightGrouped(c))
            IN /\ root # NullNode
               /\ Shape(root) = SBin(c.op1, SBin(c.op1, c.u1, c.u2), c.u3)
               /\ l.ok /\ Shape(l.node) = Shape(root)
               /\ r.ok /\ Shape(r.node) # Shape(root)
               /\ (/\ c.op1 = "IMP"
                   /\ c.u1.type = "VAR" /\ c.u2.type = "VAR" /\ c.u3.type = "VAR"
                   /\ c.u2.name \notin {c.u1.name, c.u3.name}) =>
                      ~evalNode(root, [a \in {c.u1.name, c.u2.name, c.u3.name}
                                          |-> a = c.u2.name])

\* "P -> Q -> R" is loaded as (P -> Q) -> R and is false under P:F, Q:T, R:F
C3_Witness ==
    /\ pc = "done"
    /\ str = <<"P", " ", "-", ">", " ", "Q", " ", "-", ">", " ", "R">>
    /\ root # NullNode
    /\ Shape(root) = SBin("IMP", SBin("IMP", SVar("P"), SVar("Q")), SVar("R"))
    /\ ~evalNode(root, [P |-> FALSE, Q |-> TRUE, R |-> FALSE])

(***************************************************************************)
(* C4: for every accepted input, parsing the canonical ASCII text of the   *)
(* parsed tree succeeds and gives a structurally equal tree, also when     *)
(* the letter V is a variable of the formula.                              *)
(***************************************************************************)
RoundTrip(tree, again) == again.ok /\ Shape(again.node) = Shape(tree)

C4_AsciiRoundTrip ==
    Loaded => RoundTrip(root, parseFormula(formulaToAscii(root)))

\* a loaded disjunction with the variable V, e.g. "PvV", survives the round trip
C4_Witness ==
    /\ Loaded
    /\ root.type = "BINARY" /\ root.op = "OR"
    /\ "V" \in AtomSet(root)
    /\ RoundTrip(root, parseFormula(formulaToAscii(root)))

(***************************************************************************)
(* C5: evalNode is the classical truth value, for every loaded tree and    *)
(* every total assignment of its variables: the assignments that make a    *)
(* Var true are those assigning it true, NOT complements, AND intersects,  *)
(* OR unites, IMP is (not left) or right, BICOND is agreement; the default *)
(* formula is true under P:T, Q:T, R:F and false under P:T, Q:T, R:T.      *)
(***************************************************************************)
RECURSIVE Models(_, _)
\* the assignments of U under which the tree is classically true
Models(node, U) ==
    IF node.type = "VAR" THEN {a \in U : a[node.name]}
    ELSE IF node.type = "UNARY" THEN U \ Models(node.child, U)
    ELSE CASE node.op = "AND" -> Models(node.left, U) \cap Models(node.right, U)
           [] node.op = "OR" -> Models(node.left, U) \cup Models(node.right, U)
           [] node.op = "IMP" -> (U \ Models(node.left, U)) \cup Models(node.right, U)
           [] node.op = "BICOND" ->
                  {a \in U : a \in Models(node.left, U) <=> a \in Models(node.right, U)}

TTF == [P |-> TRUE, Q |-> TRUE, R |-> FALSE]
TTT == [P |-> TRUE, Q |-> TRUE, R |-> TRUE]

C5_Classical ==
    Loaded =>
        /\ LET U == [AtomSet(root) -> BOOLEAN]
           IN \A a \in U : evalNode(root, a) <=> a \in Models(root, U)
        /\ str = DEFAULT_FORMULA => evalNode(root, TTF) /\ ~evalNode(root, TTT)

C5_Witness ==
    /\ Loaded
    /\ str = DEFAULT_FORMULA
    /\ evalNode(root, TTF)
    /\ ~evalNode(root, TTT)

(***************************************************************************)
(* C8: for every accepted input, loadFormula sets the warning exactly when *)
(* the normalized input differs from the normalized canonical ASCII text   *)
(* of the tree.  So without a warning the input is the canonical, fully    *)
(* parenthesized text up to white space and connective spelling (the same  *)
(* token list, one pair of parentheses per binary node), and the inputs    *)
(* that rely on precedence, omit the outer parentheses or add redundant    *)
(* ones are flagged, the default formula among them.                       *)
(***************************************************************************)
CountTokens(toks, type) == Cardinality({i \in 1..Len(toks) : toks[i].type = type})

RECURSIVE CountBinary(_)
CountBinary(node) ==
    IF node.type = "VAR" THEN 0
    ELSE IF node.type = "UNARY" THEN CountBinary(node.child)
    ELSE 1 + CountBinary(node.left) + CountBinary(node.right)

FlaggedExamples ==
    {DEFAULT_FORMULA,
     <<"P", " ", "&", " ", "Q">>,
     <<"P", " ", "&", " ", "Q", " ", "v", " ", "R">>,
     <<"(", "(", "P", ")", ")">>}

C8_GrammarWarning ==
    Loaded =>
        /\ grammarWarning \in {null, GrammarText}
        /\ grammarWarning = GrammarText <=>
               normalizeForGrammar(str) # normalizeForGrammar(formulaToAscii(root))
        /\ grammarWarning = null <=>
               tokens = tokenize(formulaToAscii(root)).tokens
        /\ grammarWarning = null =>
               /\ CountTokens(tokens, "LPAREN") = CountBinary(root)
               /\ CountTokens(tokens, "RPAREN") = CountBinary(root)
        /\ str \in FlaggedExamples => grammarWarning = GrammarText

\* the default formula "(P AND Q) IMP NOT R" is loaded and flagged
C8_Witness ==
    /\ Loaded
    /\ str = DEFAULT_FORMULA
    /\ grammarWarning = GrammarText
    /\ normalizeForGrammar(str) # normalizeForGrammar(formulaToAscii(root))

(***************************************************************************)
(* C9: parseFormula returns a tree exactly when the whole token list is    *)
(* one expression (operands and binary operators alternate, negations      *)
(* precede operands, parentheses match); otherwise it throws and no tree   *)
(* is returned: for the empty list, an operator without its operand, an    *)
(* unclosed parenthesis, a leftover token.  "A~" tokenizes to [VAR A, NOT] *)
(* and does not parse.                                                     *)
(***************************************************************************)
RECURSIVE Scan(_, _, _, _)
\* a left-to-right scan of toks from index i: TRUE iff toks is one expression
Scan(toks, i, wantOperand, depth) ==
    IF i > Len(toks) THEN ~wantOperand /\ depth = 0
    ELSE LET t == toks[i].type IN
         IF wantOperand
         THEN CASE t = "VAR" -> Scan(toks, i + 1, FALSE, depth)
                [] t = "NOT" -> Scan(toks, i + 1, TRUE, depth)
                [] t = "LPAREN" -> Scan(toks, i + 1, TRUE, depth + 1)
                [] OTHER -> FALSE
         ELSE CASE t \in BinaryOps -> Scan(toks, i + 1, TRUE, depth)
                [] t = "RPAREN" /\ depth > 0 -> Scan(toks, i + 1, FALSE, depth - 1)
                [] OTHER -> FALSE

WellFormed(toks) == Scan(toks, 1, TRUE, 0)

C9_ParseErrors ==
    pc = "done" =>
        /\ root = NullNode <=> parseError # null
        /\ tokens = NoTokens => root = NullNode
        /\ tokens # NoTokens =>
               /\ root # NullNode <=> WellFormed(tokens)
               /\ tokens = <<>> => root = NullNode
               /\ (tokens # <<>> /\ tokens[Len(tokens)].type \in BinaryOps \cup {"NOT"})
                      => root = NullNode
               /\ (tokens # <<>> /\ tokens[1].type \in BinaryOps) => root = NullNode
               /\ CountTokens(tokens, "LPAREN") # CountTokens(tokens, "RPAREN")
                      => root = NullNode
               /\ (\E k \in 1..(Len(tokens) - 1) : WellFormed(SubSeq(tokens, 1, k))
                                                    /\ tokens[k + 1].type # "RPAREN"
                                                    /\ tokens[k + 1].type \notin BinaryOps)
                      => root = NullNode
        /\ str = <<"A", "~">> =>
               /\ tokens = <<VarToken("A"), Tok("NOT")>>
               /\ root = NullNode
               /\ parseError = "Extra tokens at end of input"

\* "A~" was tokenized to [VAR A, NOT] and rejected for its leftover token
C9_Witness ==
    /\ pc = "done"
    /\ str = <<"A", "~">>
    /\ tokens = <<VarToken("A"), Tok("NOT")>>
    /\ root = NullNode
    /\ parseError = "Extra tokens at end of input"

(***************************************************************************)
(* C6: allAssignments                                                      *)
(***************************************************************************)
RECURSIVE RowValueFrom(_, _, _)
\* the number whose binary digits are the truth values of row for
\* as[i], as[i + 1], ..., read from the left, true = 1
RowValueFrom(row, as, i) ==
    IF i > Len(as) THEN 0
    ELSE (IF row[as[i]] THEN 2 ^ (Len(as) - i) ELSE 0) + RowValueFrom(row, as, i + 1)

RowValue(row, as) == RowValueFrom(row, as, 1)

AsgDone == pc = "done" /\ tape = <<>> /\ ast = NullNode /\ str = <<>>

\* C6: for a list of n distinct atoms, allAssignments returns exactly 2^n
\* pairwise distinct total assignments; the k-th row (from 0) has the n-bit
\* value 2^n - 1 - k with atoms[0] the most significant bit and true = 1, so
\* the values descend strictly, the first row is all-true and the last is
\* all-false; for [P, Q] the rows are TT, TF, FT, FF.  The rows built by the
\* loop are the ones the table is computed from.
C6_AllAssignments ==
    AsgDone =>
        LET n == Len(atomsArg)
            names == {atomsArg[i] : i \in 1..n}
        IN /\ Len(rows) = 2 ^ n
           /\ \A k \in 1..Len(rows) : DOMAIN rows[k] = names
           /\ \A k \in 1..Len(rows) : \A a \in names : rows[k][a] \in BOOLEAN
           /\ \A j, k \in 1..Len(rows) : rows[j] = rows[k] => j = k
           /\ \A k \in 1..Len(rows) : RowValue(rows[k], atomsArg) = 2 ^ n - k
           /\ \A j, k \in 1..Len(rows) :
                 j < k => RowValue(rows[j], atomsArg) > RowValue(rows[k], atomsArg)
           /\ \A a \in names : rows[1][a] /\ ~rows[Len(rows)][a]
           /\ atomsArg = <<"P", "Q">> =>
                 rows = << [P |-> TRUE,  Q |-> TRUE],  [P |-> TRUE,  Q |-> FALSE],
                           [P |-> FALSE, Q |-> TRUE],  [P |-> FALSE, Q |-> FALSE] >>
           /\ rows = allAssignments(atomsArg)

C6_Witness ==
    /\ AsgDone
    /\ atomsArg = <<"Q", "P", "S">>
    /\ Len(rows) = 8
    /\ rows[2] = [Q |-> TRUE, P |-> TRUE, S |-> FALSE]
    /\ rows[5] = [Q |-> FALSE, P |-> TRUE, S |-> TRUE]

(***************************************************************************)
(* C7: collectSubformulas                                                  *)
(***************************************************************************)
RECURSIVE NodesOf(_)
\* the nodes of a tree; the ids make the nodes of one tree distinct values
NodesOf(node) ==
    IF node.type = "VAR" THEN {node}
    ELSE IF node.type = "UNARY" THEN {node} \cup NodesOf(node.child)
    ELSE {node} \cup NodesOf(node.left) \cup NodesOf(node.right)

NonAtomic(node) == {m \in NodesOf(node) : m.type # "VAR"}

\* the non-atomic nodes strictly below node
Below(node) == NonAtomic(node) \ {node}

RECURSIVE CountNonAtomic(_)
CountNonAtomic(node) ==
    IF node.type = "VAR" THEN 0
    ELSE IF node.type = "UNARY" THEN 1 + CountNonAtomic(node.child)
    ELSE 1 + CountNonAtomic(node.left) + CountNonAtomic(node.right)

\* the position of node m in the sequence subs (0 when absent)
IndexIn(subs, m) ==
    IF \E i \in 1..Len(subs) : subs[i] = m
    THEN CHOOSE i \in 1..Len(subs) : subs[i] = m
    ELSE 0

PostOrderOf(tree, subs) ==
    /\ \A i \in 1..Len(subs) : subs[i].type # "VAR"
    /\ {subs[i] : i \in 1..Len(subs)} = NonAtomic(tree)
    /\ \A i, j \in 1..Len(subs) : subs[i] = subs[j] => i = j
    /\ Len(subs) = CountNonAtomic(tree)
    /\ \A i \in 1..Len(subs) :
          \A m \in Below(subs[i]) : IndexIn(subs, m) > 0 /\ IndexIn(subs, m) < i
    /\ \A i \in 1..Len(subs) :
          subs[i].type = "BINARY" =>
             \A l \in NonAtomic(subs[i].left) : \A r \in NonAtomic(subs[i].right) :
                IndexIn(subs, l) < IndexIn(subs, r)

GenDone == pc = "done" /\ ast # NullNode

\* C7: collectSubformulas returns the post-order sequence of the Unary and
\* Binary nodes of a tree: no Var node, every Unary/Binary node exactly once
\* (so as many entries as the tree has Unary plus Binary nodes), every node
\* after all non-atomic nodes of its child subtrees, and those of a left
\* subtree before those of the right one.  Checked on the generated tree and
\* on the tree the App loads from it.
C7_PostOrder ==
    GenDone =>
        /\ PostOrderOf(ast, collectSubformulas(ast))
        /\ root # NullNode => PostOrderOf(root, subformulas)

C7_Witness ==
    /\ GenDone
    /\ root # NullNode
    /\ Len(subformulas) >= 4
    /\ root.type = "BINARY"
    /\ NonAtomic(root.left) # {}
    /\ NonAtomic(root.right) # {}
    /\ \E m \in NonAtomic(root) : m.type = "UNARY"
    /\ subformulas[Len(subformulas)] = root
    /\ subformulas[1] \in NonAtomic(root.left)

(***************************************************************************)
(* C10: the generated formula round-trips                                  *)
(***************************************************************************)
RECURSIVE Height(_)
Height(node) ==
    IF node.type = "VAR" THEN 0
    ELSE IF node.type = "UNARY" THEN 1 + Height(node.child)
    ELSE 1 + (IF Height(node.left) > Height(node.right)
              THEN Height(node.left) ELSE Height(node.right))

\* C10: for a tree the generator builds, s = formulaToUnicode(tree) is
\* accepted by parseFormula, the parsed tree is structurally equal to the
\* generated tree (same shape, operators and atoms), and printing the parsed
\* tree gives s again.
C10_GeneratedRoundTrip ==
    GenDone =>
        /\ str = formulaToUnicode(ast)
        /\ parseError = null
        /\ root # NullNode
        /\ Shape(root) = Shape(ast)
        /\ formulaToUnicode(root) = str
        /\ formulaStr = str

C10_Witness ==
    /\ GenDone
    /\ Height(ast) = 3
    /\ ast.type = "BINARY"
    /\ ast.left.type = "UNARY"
    /\ ast.right.type = "BINARY"
    /\ root # NullNode
    /\ Shape(root) = Shape(ast)
    /\ formulaStr = str

(***************************************************************************)
(* C11: shape and atoms of a generated formula                             *)
(***************************************************************************)
RECURSIVE FullToDepth(_, _)
\* every Var of the tree is at depth exactly d, every node above is not a Var
FullToDepth(node, d) ==
    IF node.type = "VAR" THEN d = 0
    ELSE IF node.type = "UNARY" THEN d > 0 /\ FullToDepth(node.child, d - 1)
    ELSE d > 0 /\ FullToDepth(node.left, d - 1) /\ FullToDepth(node.right, d - 1)

RECURSIVE NamesOf(_)
NamesOf(node) ==
    IF node.type = "VAR" THEN {node.name}
    ELSE IF node.type = "UNARY" THEN NamesOf(node.child)
    ELSE NamesOf(node.left) \cup NamesOf(node.right)

\* the depth and the pool size that the first two random numbers select:
\* floor(3r) + 1 and floor(2r) + 2 for r = tape value / 60
ChosenDepth == IF tape[2] < 20 THEN 1 ELSE IF tape[2] < 40 THEN 2 ELSE 3
ChosenNumAtoms == IF tape[1] < 30 THEN 2 ELSE 3

\* C11: a generated formula has height equal to the chosen depth d in
\* {1, 2, 3}, its Var nodes are all at depth exactly d, and its variable names
\* are among the first numAtoms names of the pool, numAtoms in {2, 3}: only
\* P, Q, R occur, S never, and R only with numAtoms = 3.
C11_GeneratedShape ==
    GenDone =>
        /\ Height(ast) = ChosenDepth
        /\ FullToDepth(ast, ChosenDepth)
        /\ NamesOf(ast) \subseteq
              (IF ChosenNumAtoms = 2 THEN {"P", "Q"} ELSE {"P", "Q", "R"})
        /\ "S" \notin NamesOf(ast)
        /\ root # NullNode => NamesOf(root) = NamesOf(ast)

C11_Witness ==
    /\ GenDone
    /\ ChosenDepth = 3
    /\ ChosenNumAtoms = 3
    /\ Height(ast) = 3
    /\ "R" \in NamesOf(ast)
    /\ ast.type = "BINARY"
    /\ ast.left.type = "UNARY"

(***************************************************************************)
(* C12, C13: the truth table is filled left to right                       *)
(***************************************************************************)
Mounted == pc = "mounted"

\* the step leaves the table as a load of a formula does: all cells blank,
\* all columns pending, first column active
TableReset ==
    /\ activeColIndex' = 0
    /\ \A c \in 1..Len(guesses') : \A r \in 1..Len(guesses'[c]) :
          guesses'[c][r] = null /\ feedback'[c][r] = null
    /\ \A c \in 1..Len(columnStatus') : columnStatus'[c] = "pending"

\* every row of column c (0-based) has a guess, and the guess is the value of
\* the column's subformula under the row's assignment
ColumnFilledCorrectly(c) ==
    \A r \in 1..Len(assignments) :
        guesses[c + 1][r] =
            (IF evalNode(subformulas[c + 1], assignments[r]) THEN "T" ELSE "F")

Editable(c) ==
    c = activeColIndex /\ root # NullNode /\ columnStatus[c + 1] # "correct"

ToggleEffect(c, r) ==
    /\ guesses'[c + 1][r + 1] =
          (CASE guesses[c + 1][r + 1] = null -> "T"
             [] guesses[c + 1][r + 1] = "T" -> "F"
             [] guesses[c + 1][r + 1] = "F" -> null)
    /\ feedback'[c + 1][r + 1] = null
    /\ DOMAIN guesses' = DOMAIN guesses
    /\ DOMAIN feedback' = DOMAIN feedback
    /\ \A c2 \in 1..Len(guesses) :
          /\ DOMAIN guesses'[c2] = DOMAIN guesses[c2]
          /\ DOMAIN feedback'[c2] = DOMAIN feedback[c2]
          /\ \A r2 \in 1..Len(guesses[c2]) :
                (c2 # c + 1 \/ r2 # r + 1) =>
                    /\ guesses'[c2][r2] = guesses[c2][r2]
                    /\ feedback'[c2][r2] = feedback[c2][r2]
    /\ UNCHANGED <<columnStatus, activeColIndex, root, parseError,
                   grammarWarning, formulaStr>>
    /\ UNCHANGED quizVars

ToggleFrame ==
    \A c \in ClickCols : \A r \in ClickRows :
        ToggleGuess(c, r) =>
            IF Editable(c)
            THEN ToggleEffect(c, r)
            ELSE UNCHANGED <<guesses, feedback, columnStatus, activeColIndex, summary>>

FrozenColumns ==
    \A c \in 1..Len(guesses) :
        (c - 1 # activeColIndex \/ columnStatus[c] = "correct") =>
            \/ /\ c \in DOMAIN guesses'
               /\ guesses'[c] = guesses[c]
            \/ TableReset

\* C12: toggleGuess(col, row) changes state only when col is the active
\* column, a formula is loaded and the column is not marked correct; it then
\* changes only guesses[col][row] (blank -> T -> F -> blank),
\* feedback[col][row] (cleared) and the summary, and otherwise leaves guesses,
\* feedback, columnStatus and activeColIndex unchanged.  The guesses of a
\* non-active column or of a column marked correct change in no step except
\* by the reset of the table when a formula is loaded.
C12_ToggleGuess == [][ToggleFrame /\ FrozenColumns]_vars

C12_Witness ==
    /\ Mounted
    /\ Len(columnStatus) >= 2
    /\ activeColIndex = 1
    /\ columnStatus[1] = "correct"
    /\ columnStatus[2] = "pending"
    /\ guesses[2][1] = "F"
    /\ feedback[2][1] = null
    /\ feedback[2][2] = "missing"

Advance ==
    /\ activeColIndex' = activeColIndex + 1
    /\ root # NullNode
    /\ root' = root
    /\ activeColIndex >= 0
    /\ activeColIndex + 1 < Len(subformulas)
    /\ ColumnFilledCorrectly(activeColIndex)
    /\ guesses' = guesses
    /\ columnStatus' = [columnStatus EXCEPT ![activeColIndex + 1] = "correct"]
    /\ HandleCheckActiveColumn

MarkedCorrect ==
    /\ root # NullNode
    /\ activeColIndex >= 0
    /\ activeColIndex < Len(subformulas)
    /\ ColumnFilledCorrectly(activeColIndex)
    /\ columnStatus' = [columnStatus EXCEPT ![activeColIndex + 1] = "correct"]
    /\ HandleCheckActiveColumn

\* the active column has a missing or an incorrect row
BadColumn ==
    /\ root # NullNode
    /\ hasSubformulas
    /\ ~ColumnFilledCorrectly(activeColIndex)

\* C13: activeColIndex changes only in handleCheckActiveColumn, when every
\* row of the active column has a guess equal to the evaluator's value, and
\* then by exactly one (it stays at the last column), or by the reset to 0
\* when a formula is loaded; columnStatus changes only by marking that active
\* column correct or by that reset; a check of a column with a missing or an
\* incorrect row leaves both unchanged.
C13_ActiveColumn ==
    [][ /\ activeColIndex' # activeColIndex => Advance \/ TableReset
        /\ columnStatus' # columnStatus => MarkedCorrect \/ TableReset
        /\ (<<activeColIndex, columnStatus>>' # <<activeColIndex, columnStatus>>
              /\ BadColumn) => ~HandleCheckActiveColumn
        /\ (columnStatus' # columnStatus /\ ~TableReset
              /\ activeColIndex = Len(subformulas) - 1)
               => UNCHANGED activeColIndex
      ]_vars

C13_Witness ==
    /\ Mounted
    /\ Len(columnStatus) = 3
    /\ activeColIndex = 2
    /\ columnStatus = <<"correct", "correct", "pending">>
    /\ guesses[3][2] = "T"
    /\ feedback[3][2] = "incorrect"

(***************************************************************************)
(* C14: quiz items are completed in order                                  *)
(***************************************************************************)
QuizOrdered ==
    inQuiz =>
        /\ currentQuizIndex # NullIndex
        /\ currentQuizIndex >= 0
        /\ currentQuizIndex < Len(quizQuestions)
        /\ \A i \in 1..Len(quizQuestions) :
              quizQuestions[i].status =
                  (IF i - 1 < currentQuizIndex THEN "completed"
                   ELSE IF i - 1 = currentQuizIndex THEN "in-progress"
                   ELSE "pending")
        /\ root # NullNode
        /\ formulaToUnicode(root) = quizQuestions[currentQuizIndex + 1].formula

\* a new list of questions, none completed, the first in progress
QuizStarted ==
    /\ inQuiz'
    /\ currentQuizIndex' = 0
    /\ \A i \in 1..Len(quizQuestions') : quizQuestions'[i].status # "completed"

CompletedInTurn ==
    \A i \in 1..Len(quizQuestions') :
        (/\ quizQuestions'[i].status = "completed"
         /\ ~QuizStarted
         /\ (i \in 1..Len(quizQuestions) => quizQuestions[i].status # "completed"))
            => /\ inQuiz
               /\ i - 1 = currentQuizIndex
               /\ i \in 1..Len(quizQuestions)
               /\ hasSubformulas
               /\ activeColIndex = Len(subformulas) - 1
               /\ ColumnFilledCorrectly(activeColIndex)

IndexSteps ==
    currentQuizIndex' # currentQuizIndex =>
        \/ /\ inQuiz /\ inQuiz'
           /\ currentQuizIndex' = currentQuizIndex + 1
           /\ quizQuestions'[currentQuizIndex + 1].status = "completed"
        \/ currentQuizIndex' = NullIndex /\ ~inQuiz'
        \/ QuizStarted

RECURSIVE IdsOf(_)
\* the ids of all nodes of a tree, one entry per node
IdsOf(node) ==
    IF node.type = "VAR" THEN <<node.id>>
    ELSE IF node.type = "UNARY" THEN IdsOf(node.child) \o <<node.id>>
    ELSE IdsOf(node.left) \o IdsOf(node.right) \o <<node.id>>

\* C15: in the tree returned by one parseFormula call all nodes (Var, Unary
\* and Binary) have pairwise distinct ids, also when the same subformula text
\* occurs several times in the input.
C15_DistinctIds ==
    Loaded =>
        \A i, j \in 1..Len(IdsOf(root)) :
            IdsOf(root)[i] = IdsOf(root)[j] => i = j

C15_Witness ==
    /\ Loaded
    /\ root.type = "BINARY"
    /\ root.left.type = "UNARY"
    /\ Shape(root.left) = Shape(root.right)
    /\ root.left # root.right
    /\ Len(IdsOf(root)) = 5

(***************************************************************************)
(* C16: a rejected input leaves no formula loaded                          *)
(***************************************************************************)
NothingLoaded ==
    /\ root = NullNode
    /\ grammarWarning = null
    /\ guesses = <<>>
    /\ feedback = <<>>
    /\ columnStatus = <<>>
    /\ activeColIndex = 0

\* C16: after loadFormula on an input that tokenize or parseFormula rejects
\* (str is the argument of the last loadFormula call) root is null,
\* parseError is the error message, the grammar warning is null, guesses,
\* feedback and columnStatus are empty and activeColIndex is 0; in every
\* state root and parseError are not both non-null and a grammar warning is
\* present only with a non-null root.
C16_RejectedInput ==
    /\ (Mounted /\ ~parseFormula(str).ok) =>
           /\ NothingLoaded
           /\ parseError = parseFormula(str).error
           /\ parseError # null
           /\ parseError # ""
    /\ (Mounted /\ parseFormula(str).ok) => root # NullNode /\ parseError = null
    /\ ~(root # NullNode /\ parseError # null)
    /\ grammarWarning # null => root # NullNode

C16_Witness ==
    /\ Mounted
    /\ str = <<"P", "x">>
    /\ NothingLoaded
    /\ parseError = "Unexpected character: 'x'"
    /\ formulaStr = <<"P", "x">>

(***************************************************************************)
(* C17: getAtoms                                                           *)
(***************************************************************************)
\* C17: getAtoms returns exactly the variable names occurring in the tree,
\* each once, in strictly ascending character order, whatever the order of
\* first occurrence in the formula.
C17_GetAtoms ==
    Loaded =>
        /\ {atoms[i] : i \in 1..Len(atoms)} = NamesOf(root)
        /\ Len(atoms) = Cardinality(NamesOf(root))
        /\ \A i, j \in 1..Len(atoms) :
              i < j => CharCode(atoms[i]) < CharCode(atoms[j])

C17_Witness ==
    /\ Loaded
    /\ root.type = "BINARY"
    /\ root.left.type = "VAR"
    /\ root.left.name = "R"
    /\ root.right.type = "BINARY"
    /\ atoms = <<"P", "Q", "R">>

(***************************************************************************)
(* C18: the two printers                                                   *)
(***************************************************************************)
AsciiGlyph ==
    [AND |-> <<"&">>, OR |-> <<"v">>, IMP |-> <<"-", ">">>,
     BICOND |-> <<"<", "-", ">">>]

UnicodeGlyph ==
    [AND |-> <<AND_U>>, OR |-> <<OR_U>>, IMP |-> <<IMP_U>>, BICOND |-> <<BICOND_U>>]

RECURSIVE GlyphsToAscii(_)
\* the text with every Unicode connective replaced by its ASCII spelling
GlyphsToAscii(s) ==
    IF s = <<>> THEN <<>>
    ELSE (CASE Head(s) = NOT_U -> <<"~">>
            [] Head(s) = AND_U -> <<"&">>
            [] Head(s) = OR_U -> <<"v">>
            [] Head(s) = IMP_U -> <<"-", ">">>
            [] Head(s) = BICOND_U -> <<"<", "-", ">">>
            [] OTHER -> <<Head(s)>>) \o GlyphsToAscii(Tail(s))

CountChar(s, c) == Cardinality({i \in 1..Len(s) : s[i] = c})

RenderedAs(m) ==
    IF m.type = "VAR"
    THEN /\ formulaToAscii(m) = <<m.name>>
         /\ formulaToUnicode(m) = <<m.name>>
    ELSE IF m.type = "UNARY"
    THEN /\ formulaToAscii(m) = <<"~">> \o formulaToAscii(m.child)
         /\ formulaToUnicode(m) = <<NOT_U>> \o formulaToUnicode(m.child)
    ELSE /\ formulaToAscii(m) =
                <<"(">> \o formulaToAscii(m.left) \o <<" ">> \o AsciiGlyph[m.op]
                \o <<" ">> \o formulaToAscii(m.right) \o <<")">>
         /\ formulaToUnicode(m) =
                <<"(">> \o formulaToUnicode(m.left) \o <<" ">> \o UnicodeGlyph[m.op]
                \o <<" ">> \o formulaToUnicode(m.right) \o <<")">>

\* C18: both printers render a Var as its bare name, a negation as the glyph
\* followed directly by the child, and a Binary node as "(" left " " op " "
\* right ")", so the output has one pair of parentheses per Binary node; the
\* two outputs differ only in the glyphs: replacing the Unicode connectives
\* in formulaToUnicode(n) by ~ & v -> <-> gives formulaToAscii(n).
C18_Printers ==
    Loaded =>
        /\ \A m \in NodesOf(root) : RenderedAs(m)
        /\ CountChar(formulaToAscii(root), "(") = CountBinary(root)
        /\ CountChar(formulaToAscii(root), ")") = CountBinary(root)
        /\ CountChar(formulaToUnicode(root), "(") = CountBinary(root)
        /\ CountChar(formulaToUnicode(root), ")") = CountBinary(root)
        /\ \A m \in NodesOf(root) :
              GlyphsToAscii(formulaToUnicode(m)) = formulaToAscii(m)

C18_Witness ==
    /\ Loaded
    /\ root.type = "BINARY"
    /\ root.op = "BICOND"
    /\ root.left.type = "BINARY"
    /\ root.left.op = "IMP"
    /\ root.right.type = "VAR"
    /\ formulaToAscii(root) =
          <<"(", "(", "P", " ", "-", ">", " ", "V", ")", " ", "<", "-", ">",
            " ", "P", ")">>
    /\ formulaToUnicode(root) =
          <<"(", "(", "P", " ", IMP_U, " ", "V", ")", " ", BICOND_U, " ", "P", ")">>

(***************************************************************************)
(* C19, C20: tokenize                                                      *)
(***************************************************************************)
\* the lexemes: their text and the token type they give ("SKIP": none)
LexemeTable ==
    {[text |-> <<c>>, type |-> "SKIP"] : c \in {" ", "\t", "\n"}}
    \cup {[text |-> <<c>>, type |-> "VAR"] : c \in UpperCase}
    \cup {[text |-> <<"(">>, type |-> "LPAREN"], [text |-> <<")">>, type |-> "RPAREN"],
          [text |-> <<"~">>, type |-> "NOT"], [text |-> <<NOT_U>>, type |-> "NOT"],
          [text |-> <<"&">>, type |-> "AND"], [text |-> <<AND_U>>, type |-> "AND"],
          [text |-> <<"v">>, type |-> "OR"], [text |-> <<OR_U>>, type |-> "OR"],
          [text |-> <<"-", ">">>, type |-> "IMP"], [text |-> <<IMP_U>>, type |-> "IMP"],
          [text |-> <<"<", "-", ">">>, type |-> "BICOND"],
          [text |-> <<BICOND_U>>, type |-> "BICOND"]}

LexemeTexts == {l.text : l \in LexemeTable}

LexemeOf(text) == CHOOSE l \in LexemeTable : l.text = text

\* the lengths of the lexemes that stand at position i (1-based) of s
LexemesAt(s, i) ==
    {k \in 1..3 : i + k - 1 <= Len(s) /\ SubSeq(s, i, i + k - 1) \in LexemeTexts}

TokenOf(l) ==
    IF l.type = "VAR" THEN [type |-> "VAR", name |-> l.text[1]] ELSE [type |-> l.type]

RECURSIVE LexFrom(_, _, _)

\* LexFrom at a position where the lexeme l stands
LexOne(s, i, acc, l) ==
    LexFrom(s, i + Len(l.text),
            IF l.type = "SKIP" THEN acc ELSE Append(acc, TokenOf(l)))

\* LexFrom at a position where lexemes of the lengths ks stand
LexAmong(s, i, acc, ks) ==
    IF ks = {} THEN [ok |-> FALSE, tokens |-> acc, at |-> i]
    ELSE LexOne(s, i, acc, LexemeOf(SubSeq(s, i, i + (CHOOSE k \in ks : TRUE) - 1)))

\* s from position i as a sequence of lexemes: their tokens in source order,
\* or the position of the first character that starts no lexeme
LexFrom(s, i, acc) ==
    IF i > Len(s) THEN [ok |-> TRUE, tokens |-> acc, at |-> 0]
    ELSE LexAmong(s, i, acc, LexemesAt(s, i))

Lexed == LexFrom(str, 1, <<>>)

TokensAsLexed(lx) ==
    /\ lx.ok => tokens = lx.tokens
    /\ ~lx.ok =>
          /\ tokens = NoTokens
          /\ root = NullNode
          /\ parseError = "Unexpected character: '" \o str[lx.at] \o "'"

NotRejectedAtArrow(lx) ==
    /\ SubSeq(str, lx.at, Min(lx.at + 2, Len(str))) # <<"<", "-", ">">>
    /\ SubSeq(str, lx.at, Min(lx.at + 1, Len(str))) # <<"-", ">">>

LoadDone == pc = "done" /\ tape = <<>>

\* C19: tokenize raises an error, and returns no token list, exactly when
\* the left-to-right scan reaches a character that starts no lexeme (a
\* lowercase letter other than v, a digit, a lone "-", a lone "<", "<-" not
\* followed by ">"), and the error names that character; otherwise it
\* returns the tokens of the lexemes in source order, and space, tab and
\* newline give no token.
C19_TokenizeErrors ==
    LoadDone =>
        /\ \A i \in 1..Len(str) : Cardinality(LexemesAt(str, i)) <= 1
        /\ TokensAsLexed(Lexed)
        /\ tokens # NoTokens =>
              Len(tokens) = Cardinality({i \in 1..Len(str) : str[i] \notin WhiteSpace})
                            - Cardinality({i \in 1..Len(str) : str[i] = ">"})
                            - Cardinality({i \in 1..Len(str) : str[i] = "<"})

C19_Witness ==
    /\ LoadDone
    /\ str = <<"P", "\t", "<", "-", "Q">>
    /\ tokens = NoTokens
    /\ parseError = "Unexpected character: '<'"

\* the number of places of s where pat stands
Occurrences(s, pat) ==
    Cardinality({i \in 1..Len(s) :
        /\ i + Len(pat) - 1 <= Len(s)
        /\ SubSeq(s, i, i + Len(pat) - 1) = pat})

\* C20: "<->" is always tokenized as one BICOND token, never split and never
\* rejected, and "->" as one IMP token: the token list has one BICOND per
\* "<->" or Unicode biconditional and one IMP per other "->" or Unicode
\* arrow, a rejected character is never the "<" of a "<->" nor the "-" of a
\* "->", tokenize("P<->Q") = [VAR P, BICOND, VAR Q] and tokenize("P->Q") =
\* [VAR P, IMP, VAR Q].
C20_Arrows ==
    LoadDone =>
        /\ tokens # NoTokens =>
              /\ CountTokens(tokens, "BICOND") =
                    Occurrences(str, <<"<", "-", ">">>) + Occurrences(str, <<BICOND_U>>)
              /\ CountTokens(tokens, "IMP") =
                    Occurrences(str, <<"-", ">">>) - Occurrences(str, <<"<", "-", ">">>)
                    + Occurrences(str, <<IMP_U>>)
        /\ tokens = NoTokens => NotRejectedAtArrow(Lexed)
        /\ str = <<"P", "<", "-", ">", "Q">> =>
              tokens = <<VarToken("P"), Tok("BICOND"), VarToken("Q")>>
        /\ str = <<"P", "-", ">", "Q">> =>
              tokens = <<VarToken("P"), Tok("IMP"), VarToken("Q")>>
        /\ str = <<"<", "-", ">">> => tokens = <<Tok("BICOND")>>
        /\ str = <<"-", ">">> => tokens = <<Tok("IMP")>>

C20_Witness ==
    /\ LoadDone
    /\ str = <<"P", "<", "-", ">", "Q">>
    /\ tokens = <<VarToken("P"), Tok("BICOND"), VarToken("Q")>>
    /\ root # NullNode
    /\ root.op = "BICOND"

(***************************************************************************)
(* C21: ids follow the construction order                                  *)
(***************************************************************************)
\* the nodes strictly below node m
Descendants(m) ==
    IF m.type = "VAR" THEN {}
    ELSE IF m.type = "UNARY" THEN NodesOf(m.child)
    ELSE NodesOf(m.left) \cup NodesOf(m.right)

\* C21: in the tree that parseFormula returns, the id of a node is n<k> with
\* k the zero-based position of the node in the post-order traversal of all
\* nodes, Var nodes included.  So every Unary and Binary node has a larger id
\* number than every node below it, every node of a left subtree has a
\* smaller id number than every node of the right subtree, and the root has
\* the largest id number, which is not n0 unless the tree is one variable.
C21_IdsInPostOrder ==
    Loaded =>
        /\ IdsOf(root) = [k \in 1..Len(IdsOf(root)) |-> k - 1]
        /\ \A m \in NodesOf(root) :
              /\ \A d \in Descendants(m) : d.id < m.id
              /\ m.type = "BINARY" =>
                    \A l \in NodesOf(m.left) : \A r \in NodesOf(m.right) :
                        l.id < r.id
              /\ m.id <= root.id
        /\ root.id = Len(IdsOf(root)) - 1
        /\ root.type # "VAR" => root.id # 0

\* "R & (Q v P)" is loaded: R is n0, Q n1, P n2, the disjunction n3, the root n4
C21_Witness ==
    /\ Loaded
    /\ str = <<"R", " ", "&", " ", "(", "Q", " ", "v", " ", "P", ")">>
    /\ root.id = 4
    /\ root.left.id = 0
    /\ root.right.id = 3
    /\ root.right.left.id = 1
    /\ root.right.right.id = 2

(***************************************************************************)
(* C22: the id counter                                                     *)
(***************************************************************************)
\* the ids k, k + 1, ..., in post-order
CountsFrom(node, k) == IdsOf(node) = [i \in 1..Len(IdsOf(node)) |-> k + i - 1]

ParseBegins == pc = "idle" /\ pc' = "parse"
ParseEnds == pc = "parse" /\ pc' = "idle"
GeneratorRuns == pc = "idle" /\ pc' = "idle"

\* the counter in a state: 0 when parseFormula has just been entered; the
\* tree of the last parseFormula(str) is the one a first call would return
CounterState ==
    /\ pc = "parse" => idCounter = 0
    /\ (pc = "idle" /\ root # NullNode) =>
          /\ CountsFrom(root, 0)
          /\ parseFormula(str).ok
          /\ root = parseFormula(str).node

\* the counter in a step
CounterStep ==
    /\ ParseBegins => idCounter' = 0
    /\ ~ParseBegins => idCounter' >= idCounter
    /\ ParseEnds =>
          /\ root' # NullNode => idCounter' = Len(IdsOf(root'))
          /\ tokens' = NoTokens => idCounter' = 0
          /\ (root' = NullNode /\ tokens' # NoTokens) =>
                idCounter' <= CountTokens(tokens', "VAR") + CountTokens(tokens', "NOT")
                                  + Cardinality({i \in 1..Len(tokens') :
                                        tokens'[i].type \in BinaryOps})
          /\ idCounter' = parseFormula(str).idc
    /\ GeneratorRuns =>
          /\ CountsFrom(ast', idCounter)
          /\ idCounter' = idCounter + Len(IdsOf(ast'))

\* C22: over any sequence of parseFormula and generateRandomFormulaString
\* calls, idCounter is set to 0 when parseFormula is entered, also when the
\* call then fails in tokenize (the counter stays 0) or in parsing (the
\* counter is the number of nodes constructed before the error); every other
\* step only increases it, by one per constructed node: a generator call
\* continues from the value it finds.  So the tree returned by parseFormula(s)
\* has the ids n0, n1, ... whatever was parsed or generated before, and after
\* a successful parse idCounter is the number of nodes of the returned tree.
C22_IdCounter == []CounterState /\ [][CounterStep]_vars

\* "R & (Q v P)" is parsed after a generator call that started at a counter
\* above 0: the tree has the ids n0..n4 and the counter is 5
C22_Witness ==
    /\ pc = "idle"
    /\ ast # NullNode
    /\ ~CountsFrom(ast, 0)
    /\ str = <<"R", " ", "&", " ", "(", "Q", " ", "v", " ", "P", ")">>
    /\ root # NullNode
    /\ root.id = 4
    /\ idCounter = 5

(***************************************************************************)
(* C23: a quiz is finished by working through its five questions           *)
(***************************************************************************)
QuizFinished ==
    /\ ~inQuiz
    /\ currentQuizIndex = NullIndex
    /\ Len(quizQuestions) = 5
    /\ \A i \in 1..Len(quizQuestions) : quizQuestions[i].status = "completed"

\* a step that starts a quiz leaves five questions, the first in progress
StartsWithFive ==
    (~inQuiz /\ inQuiz') =>
        /\ Len(quizQuestions') = 5
        /\ currentQuizIndex' = 0
        /\ quizQuestions'[1].status = "in-progress"
        /\ \A i \in 2..5 : quizQuestions'[i].status = "pending"
        /\ \A i \in 1..5 : quizQuestions'[i].id = i

\* a step into the finished state is a check of the last column of the
\* question with index 4, with every row of the column right
FinishedByLastCheck ==
    (~QuizFinished /\ QuizFinished') =>
        /\ inQuiz
        /\ currentQuizIndex = 4
        /\ hasSubformulas
        /\ activeColIndex = Len(subformulas) - 1
        /\ ColumnFilledCorrectly(activeColIndex)
        /\ HandleCheckActiveColumn

\* C23: a quiz started by startQuiz has exactly 5 questions, the first in
\* progress and the others pending.  With a user who keeps filling the active
\* column with the right values and checking it, and who loads no other
\* formula and starts no other quiz meanwhile, a running quiz leads to the
\* finished state: all 5 questions completed, inQuiz false, currentQuizIndex
\* null.  That state is entered only by a check of the last column of the
\* question with index 4 in which every row is right.
C23_QuizFinishes ==
    /\ [][StartsWithFive /\ FinishedByLastCheck]_vars
    /\ (inQuiz ~> QuizFinished)

\* a quiz whose last question is (P AND Q) is finished: one column, four rows
C23_Witness ==
    /\ Mounted
    /\ QuizFinished
    /\ columnStatus = <<"correct">>
    /\ guesses = << <<"T", "F", "F", "F">> >>
    /\ quizQuestions[5].formula = <<"(", "P", " ", AND_U, " ", "Q", ")">>

(***************************************************************************)
(* C24, C25: the columns marked correct                                    *)
(***************************************************************************)
\* C24: whenever a formula with subformula columns is loaded (and the table
\* is initialised for it), there is one status per column, activeColIndex is
\* the index of a column, every column before the active one is correct,
\* every column after it is pending, so the correct columns form a prefix of
\* the column order; the active column is correct only when it is the last
\* column, and then every column is correct.
C24_CorrectPrefix ==
    (root # NullNode /\ hasSubformulas) =>
        /\ Len(columnStatus) = Len(subformulas)
        /\ Len(guesses) = Len(subformulas)
        /\ activeColIndex >= 0
        /\ activeColIndex < Len(subformulas)
        /\ \A c \in 1..Len(columnStatus) :
              /\ columnStatus[c] \in {"pending", "correct"}
              /\ c - 1 < activeColIndex => columnStatus[c] = "correct"
              /\ c - 1 > activeColIndex => columnStatus[c] = "pending"
        /\ \A c, d \in 1..Len(columnStatus) :
              (c < d /\ columnStatus[d] = "correct") => columnStatus[c] = "correct"
        /\ columnStatus[activeColIndex + 1] = "correct" =>
              /\ activeColIndex = Len(subformulas) - 1
              /\ \A c \in 1..Len(columnStatus) : columnStatus[c] = "correct"

\* a table of three columns is finished outside a quiz
C24_Witness ==
    /\ Mounted
    /\ ~inQuiz
    /\ root # NullNode
    /\ Len(subformulas) = 3
    /\ activeColIndex = 2
    /\ columnStatus = <<"correct", "correct", "correct">>

\* every row of a column marked correct has the guess T or F that the
\* evaluator gives
CorrectColumnsRight ==
    \A c \in 1..Len(columnStatus) :
        columnStatus[c] = "correct" =>
            /\ root # NullNode
            /\ c <= Len(subformulas)
            /\ Len(guesses[c]) = Len(assignments)
            /\ \A r \in 1..Len(assignments) :
                  /\ guesses[c][r] # null
                  /\ guesses[c][r] \in {"T", "F"}
                  /\ guesses[c][r] = "T" <=> evalNode(subformulas[c], assignments[r])

\* the step calls loadFormula
LoadStep ==
    \/ HandleParse
    \/ \E tp \in AppTapes : PracticeFormula(tp) \/ StartQuiz(tp)
    \/ /\ inQuiz
       /\ currentQuizIndex' = currentQuizIndex + 1
       /\ HandleCheckActiveColumn

StaysCorrect ==
    \A c \in 1..Len(columnStatus) :
        (/\ columnStatus[c] = "correct"
         /\ ~(c \in DOMAIN columnStatus' /\ columnStatus'[c] = "correct"))
            => TableReset /\ LoadStep

QuizOf(tp) == QuestionsLoop(tp, 0, 0, 0, <<>>)

\* the tree has a Unary or Binary root, and its columns end with the root
RootIsLastColumn(tree) ==
    /\ tree.type \in {"UNARY", "BINARY"}
    /\ Len(collectSubformulas(tree)) >= 1
    /\ collectSubformulas(tree)[Len(collectSubformulas(tree))] = tree

\* the text is accepted and its tree has columns
ParsesWithColumns(parsed) == parsed.ok /\ RootIsLastColumn(parsed.node)

\* C26: every formula produced by generateRandomFormulaString has a Unary or
\* Binary root, never a bare variable, so collectSubformulas of its parse is
\* non-empty with the root as last element; the table of a random practice
\* formula has at least one column to fill, and so has each of the five
\* questions that startQuiz generates.
C26_GeneratedHasColumns ==
    GenDone =>
        /\ ast.type \in {"UNARY", "BINARY"}
        /\ RootIsLastColumn(ast)
        /\ root # NullNode
        /\ RootIsLastColumn(root)
        /\ hasSubformulas
        /\ subformulas[Len(subformulas)] = root
        /\ Len(columnStatus) >= 1
        /\ Len(guesses) = Len(columnStatus)
        /\ Len(guesses[1]) >= 2
        /\ Len(QuizOf(tape)) = 5
        /\ \A i \in 1..5 : ParsesWithColumns(parseFormula(QuizOf(tape)[i].formula))

\* the smallest generated formula, a negated atom, is loaded: one column
C26_Witness ==
    /\ GenDone
    /\ ast.type = "UNARY"
    /\ ast.child.type = "VAR"
    /\ root # NullNode
    /\ subformulas = <<root>>
    /\ columnStatus = <<"pending">>
    /\ Len(guesses[1]) = 2

(***************************************************************************)
(* C27: canonical text loads without a warning                             *)
(***************************************************************************)
\* loadFormula(f) with the result `parsed` of parseFormula(f): no error and
\* no warning
CleanLoad(f, parsed) ==
    /\ parsed.ok
    /\ normalizeForGrammar(f) = normalizeForGrammar(formulaToAscii(parsed.node))

LoadsClean(f) == CleanLoad(f, parseFormula(f))

\* the state after a load that raised neither an error nor a warning
NoErrorNoWarning == root # NullNode /\ parseError = null /\ grammarWarning = null

CanonicalClean ==
    /\ pc \in {"reloaded", "retyped"} => NoErrorNoWarning
    /\ pc = "reloaded" => formulaStr = str /\ str = formulaToUnicode(root)
    /\ pc = "retyped" => str = formulaToAscii(root) /\ formulaStr = formulaToUnicode(root)
    /\ GenDone => NoErrorNoWarning /\ formulaStr = str
    /\ tape # <<>> => \A i \in 1..5 : LoadsClean(QuizOf(tape)[i].formula)

\* the load of the canonical text of the loaded tree leaves tree and text
SameTreeSameText ==
    pc = "done" /\ pc' \in {"reloaded", "retyped"} =>
        root' = root /\ formulaStr' = formulaStr

\* C27: the canonical Unicode and ASCII texts of a loaded or generated tree
\* parse without error and set no grammaticality warning; every generated
\* practice formula and quiz question loads without warning; reloading the
\* text that loadFormula wrote into the input field after a successful load
\* gives no warning, the same tree and the same displayed text.
C27_CanonicalLoadsClean == []CanonicalClean /\ [][SameTreeSameText]_vars

\* "P & Q v R" was loaded (with a warning); its canonical text is reloaded
C27_Witness ==
    /\ pc = "reloaded"
    /\ tape = <<>>
    /\ str = <<"(", "(", "P", " ", AND_U, " ", "Q", ")", " ", OR_U, " ", "R", ")">>
    /\ formulaStr = str
    /\ NoErrorNoWarning

====
